---------------------------- MODULE Spec2Model ----------------------------
(***************************************************************************)
(* Verification model of the spell-checker core: the prefix dictionary     *)
(* (trie.c), the distance engine (edit_distance.c), the suggestion ranker  *)
(* and check orchestrator (spell_check.c), the oracle client               *)
(* (api_client.c) and the front end's single-word check (Header.js).       *)
(*                                                                         *)
(* C strings are sequences of character codes (ASCII); an absent (NULL)    *)
(* string is the value NullStr, which no C string equals because a C       *)
(* string never contains the terminator 0.                                 *)
(***************************************************************************)
EXTENDS Integers, Sequences, FiniteSets, TLC

VARIABLES
    trie,        \* the Trie: node graph, total_words, memory_usage
    inserted,    \* history: the words for which trie_insert returned true
    word1,       \* distance engine: first argument (source)
    word2,       \* distance engine: second argument (target)
    ret,         \* the last call and what it returned
    nops,        \* number of calls made so far
    doc,         \* spell_check_document: the TextDocument argument
    idx,         \* spell_check_document: the loop index i
    pc,          \* spell_check_document: position of the call
    result,      \* spell_check_document: the SpellCheckResult being built
    max_errors,  \* spell_check_document: capacity of result->errors
    g_initialized,  \* api_client.c: static g_initialized
    g_stats,        \* api_client.c: static g_stats
    threads         \* the threads calling fetch_from_api: position and locals

vars == <<trie, inserted, word1, word2, ret, nops,
          doc, idx, pc, result, max_errors, g_initialized, g_stats, threads>>

trieVars == <<trie, inserted>>
distVars == <<word1, word2>>
checkVars == <<doc, idx, pc, result, max_errors>>
apiVars == <<g_initialized, g_stats, threads>>

-----------------------------------------------------------------------------
(* Bounds of the model *)

MaxWordLen == 2      \* longest word given to trie_insert / trie_search
MaxOps == 2          \* calls per behaviour of the dictionary specification
MaxDup == 2          \* cap on a node's duplicate counter word_count
MaxStrLen == 3       \* longest string of the exhaustive distance inputs
MaxDictWords == 6    \* most words in a dictionary of the suggestion specification
MaxTokens == 2       \* longest of the exhaustively enumerated documents
MaxRequests == 3     \* oracle requests per behaviour of the oracle specification
MaxLines == 2        \* most lines in a dictionary file
NumThreads == 2      \* threads calling fetch_from_api
MaxCalls == 2        \* calls of fetch_from_api per thread

-----------------------------------------------------------------------------
(* The state of the parts a specification does not exercise *)

NullDoc == [isNull |-> TRUE, tokens |-> <<>>]
NullReport == [isNull |-> TRUE, errors |-> <<>>, error_count |-> 0,
               total_words_checked |-> 0]

\* static APIStats g_stats = {0}; avg_response_time is kept as the quotient
\* it was computed from
ZeroStats == [total_requests |-> 0, successful_requests |-> 0,
              failed_requests |-> 0, words_found |-> 0, words_not_found |-> 0,
              total_response_time |-> 0,
              avg_response_time |-> [num |-> 0, den |-> 1]]

CheckIdle ==
    doc = NullDoc /\ idx = 0 /\ pc = "idle" /\ result = NullReport /\ max_errors = 0

ApiIdle == g_initialized = FALSE /\ g_stats = ZeroStats /\ threads = <<>>

-----------------------------------------------------------------------------
(* Characters and strings *)

NullStr == <<0>>

LowerA == 97
LowerZ == 122

\* <ctype.h> tolower in the C locale: A-Z (65-90) to a-z, all else unchanged
tolower(c) == IF c >= 65 /\ c <= 90 THEN c + 32 ELSE c

\* all strings over the characters cs of length at most n
Strings(cs, n) == UNION {[1..k -> cs] : k \in 0..n}

\* characters given to the dictionary: a, b, A and the digit 1
TrieChars == {97, 98, 65, 49}
TrieWords == Strings(TrieChars, MaxWordLen)

\* words the specifications use
Halo == <<104, 97, 108, 111>>
He == <<104, 101>>
Held == <<104, 101, 108, 100>>
Hell == <<104, 101, 108, 108>>
Hello == <<104, 101, 108, 108, 111>>
Help == <<104, 101, 108, 112>>
Hole == <<104, 111, 108, 101>>
World == <<119, 111, 114, 108, 100>>
Cat == <<99, 97, 116>>
Helo == <<104, 101, 108, 111>>
Bat == <<98, 97, 116>>
Xyz == <<120, 121, 122>>
CapHelo == <<72, 101, 108, 111>>
CapHello == <<72, 101, 108, 108, 111>>
ApiKey == <<107, 101, 121>>
Absolute == <<97, 98, 115, 111, 108, 117, 116, 101>>
Absoluter == <<97, 98, 115, 111, 108, 117, 116, 101, 114>>
AbsoluteId1 == <<97, 98, 115, 111, 108, 117, 116, 101, 58, 49>>
CapAbsoluter == <<65, 98, 115, 111, 108, 117, 116, 101, 114>>
Absolve == <<97, 98, 115, 111, 108, 118, 101>>

-----------------------------------------------------------------------------
(* Prefix dictionary (trie.c).                                             *)
(* A TrieNode is owned by exactly one parent slot, so a node is identified *)
(* by the path of child indexes leading to it from the root (<<>>):        *)
(* children[i] of node p is non-NULL iff Append(p, i) is a node.           *)

SizeofTrie == 24
SizeofTrieNode == 216

trie_node_create == [is_end_of_word |-> FALSE, word_count |-> 0]

trie_create ==
    [nodes |-> (<<>> :> trie_node_create),
     total_words |-> 0,
     memory_usage |-> SizeofTrie + SizeofTrieNode]

ChildIsNull(t, current, index) == Append(current, index) \notin DOMAIN t.nodes

\* slip: the duplicate counter is updated but the terminal flag is never set
MarkEndOfWord_NoFlag(t, current) ==
    [t EXCEPT !.nodes[current].word_count = @ + 1]

\* slip: total_words is advanced on every successful insert
MarkEndOfWord_AlwaysCounts(t, current) ==
    [t EXCEPT !.nodes[current] = [is_end_of_word |-> TRUE,
                                  word_count |-> t.nodes[current].word_count + 1],
              !.total_words = @ + 1]

\* lines 117-124: mark end of word and update statistics
MarkEndOfWord(t, current) ==
    LET n == t.nodes[current] IN
    [t EXCEPT !.nodes[current] = [is_end_of_word |-> TRUE,
                                  word_count |-> n.word_count + 1],
              !.total_words = IF n.is_end_of_word THEN @ ELSE @ + 1]

\* slip: the character is compared as given, without case folding
FoldChar_None(ch) == ch

\* line 96: char c = tolower(word[i])
FoldChar(ch) == tolower(ch)

\* slip: the new node is not added to the memory estimate
CreateChild_NoCharge(t, child) == [t EXCEPT !.nodes = @ @@ (child :> trie_node_create)]

\* lines 107-111: the new child and its cost
CreateChild(t, child) ==
    [t EXCEPT !.nodes = @ @@ (child :> trie_node_create),
              !.memory_usage = @ + SizeofTrieNode]

\* lines 94-115: the loop over the characters of word, from 1-based index i
\* at node current; budget is the number of trie_node_create calls that
\* still succeed (malloc fails afterwards); nomem tells that the call ended
\* on a failed trie_node_create.
RECURSIVE InsertLoop(_, _, _, _, _)
InsertLoop(t, current, word, i, budget) ==
    IF i > Len(word)
    THEN [ret |-> TRUE, trie |-> MarkEndOfWord(t, current), nomem |-> FALSE]
    ELSE LET c == FoldChar(word[i]) IN
         IF c < LowerA \/ c > LowerZ
         THEN [ret |-> FALSE, trie |-> t, nomem |-> FALSE]
         ELSE LET index == c - LowerA
                  child == Append(current, index) IN
              IF ChildIsNull(t, current, index)
              THEN IF budget = 0
                   THEN [ret |-> FALSE, trie |-> t, nomem |-> TRUE]
                   ELSE InsertLoop(CreateChild(t, child), child, word, i + 1, budget - 1)
              ELSE InsertLoop(t, child, word, i + 1, budget)

trie_insert(t, word, budget) ==
    IF word = NullStr \/ Len(word) = 0
    THEN [ret |-> FALSE, trie |-> t, nomem |-> FALSE]
    ELSE InsertLoop(t, <<>>, word, 1, budget)

\* lines 51-66: the bytes of a node and of the nodes below it; the NULL
\* slots from i on are passed over
RECURSIVE trie_node_memory_usage(_, _, _)
trie_node_memory_usage(t, node, i) ==
    LET present == {k \in i..25 : ~ChildIsNull(t, node, k)} IN
    IF present = {} THEN IF i = 0 THEN SizeofTrieNode ELSE 0
    ELSE LET k == CHOOSE k \in present : \A m \in present : k <= m IN
         (IF i = 0 THEN SizeofTrieNode ELSE 0)
           + trie_node_memory_usage(t, Append(node, k), 0)
           + trie_node_memory_usage(t, node, k + 1)

\* lines 158-164
trie_get_memory_usage(t) == SizeofTrie + trie_node_memory_usage(t, <<>>, 0)

\* slip: a path that exists counts as a word, the terminal flag is not read
RECURSIVE SearchLoop_AnyPath(_, _, _, _)
SearchLoop_AnyPath(t, current, word, i) ==
    IF i > Len(word)
    THEN TRUE
    ELSE LET c == tolower(word[i]) IN
         IF c < LowerA \/ c > LowerZ
         THEN FALSE
         ELSE IF ChildIsNull(t, current, c - LowerA)
              THEN FALSE
              ELSE SearchLoop_AnyPath(t, Append(current, c - LowerA), word, i + 1)

\* lines 135-155
RECURSIVE SearchLoop(_, _, _, _)
SearchLoop(t, current, word, i) ==
    IF i > Len(word)
    THEN t.nodes[current].is_end_of_word
    ELSE LET c == tolower(word[i]) IN
         IF c < LowerA \/ c > LowerZ
         THEN FALSE
         ELSE IF ChildIsNull(t, current, c - LowerA)
              THEN FALSE
              ELSE SearchLoop(t, Append(current, c - LowerA), word, i + 1)

trie_search(t, word) ==
    IF word = NullStr \/ Len(word) = 0
    THEN FALSE
    ELSE SearchLoop(t, <<>>, word, 1)

-----------------------------------------------------------------------------
(* Distance engine (edit_distance.c) *)

\* slip: the third candidate is never compared
\* slip: the second argument (the insertion) is left out
min3_SkipSecond(a, b, c) == IF a < c THEN a ELSE c

min3_FirstTwo(a, b, c) == IF a < b THEN a ELSE b

min3(a, b, c) ==
    LET min_ab == IF a < b THEN a ELSE b IN
    IF min_ab < c THEN min_ab ELSE c

\* lines 49-61: cells j..len2 of curr_row for row i, left to right
RECURSIVE RowCells(_, _, _, _, _, _)
RowCells(w1, w2, i, prev_row, curr_row, j) ==
    IF j > Len(w2)
    THEN curr_row
    ELSE LET cell == IF w1[i] = w2[j]
                     THEN prev_row[j - 1]
                     ELSE min3(prev_row[j - 1] + 1,     \* substitute
                               curr_row[j - 1] + 1,     \* insert
                               prev_row[j] + 1)         \* delete
         IN RowCells(w1, w2, i, prev_row, [curr_row EXCEPT ![j] = cell], j + 1)

\* slip: the buffers are not swapped, every row is computed from row 0
RECURSIVE RowLoop_NoSwap(_, _, _, _, _)
RowLoop_NoSwap(w1, w2, i, prev_row, curr_row) ==
    IF i > Len(w1)
    THEN curr_row
    ELSE LET filled == RowCells(w1, w2, i, prev_row, [curr_row EXCEPT ![0] = i], 1)
         IN RowLoop_NoSwap(w1, w2, i + 1, prev_row, filled)

\* lines 46-67: rows i..len1; the two buffers are swapped after each row
RECURSIVE RowLoop(_, _, _, _, _)
RowLoop(w1, w2, i, prev_row, curr_row) ==
    IF i > Len(w1)
    THEN prev_row
    ELSE LET filled == RowCells(w1, w2, i, prev_row, [curr_row EXCEPT ![0] = i], 1)
         IN RowLoop(w1, w2, i + 1, filled, prev_row)

\* the contents of a buffer malloc has just returned; every cell is written
\* before it is read, so the value is never observed
Unwritten == -1

\* allocOk: whether both row buffers can be allocated (line 34)
compute_edit_distance(w1, w2, allocOk) ==
    IF w1 = NullStr \/ w2 = NullStr THEN -1
    ELSE IF Len(w1) = 0 THEN Len(w2)
    ELSE IF Len(w2) = 0 THEN Len(w1)
    ELSE IF ~allocOk THEN -1
    ELSE RowLoop(w1, w2, 1,
                 [j \in 0..Len(w2) |-> j],
                 [j \in 0..Len(w2) |-> Unwritten])[Len(w2)]

NullRow == [isNull |-> TRUE]

\* lines 247-256: cells j..target_len of row for row i of get_distance_row
RECURSIVE DistanceRowCells(_, _, _, _, _, _, _)
DistanceRowCells(word, target, target_len, i, prev_row, row, j) ==
    IF j > target_len
    THEN row
    ELSE LET cell == IF word[i] = target[j]
                     THEN prev_row[j - 1]
                     ELSE min3(prev_row[j - 1] + 1, row[j - 1] + 1, prev_row[j] + 1)
         IN DistanceRowCells(word, target, target_len, i, prev_row,
                             [row EXCEPT ![j] = cell], j + 1)

\* slip: the buffer freed and the buffer returned are exchanged
RECURSIVE DistanceRowLoop_ReturnsRow(_, _, _, _, _, _)
DistanceRowLoop_ReturnsRow(word, target, target_len, i, prev_row, row) ==
    IF i > Len(word)
    THEN row
    ELSE LET filled == DistanceRowCells(word, target, target_len, i, prev_row,
                                        [row EXCEPT ![0] = i], 1)
         IN DistanceRowLoop_ReturnsRow(word, target, target_len, i + 1, filled, prev_row)

\* lines 244-267: rows i..word_len; the buffers are swapped after each row
\* and prev_row is the one returned
RECURSIVE DistanceRowLoop(_, _, _, _, _, _)
DistanceRowLoop(word, target, target_len, i, prev_row, row) ==
    IF i > Len(word)
    THEN prev_row
    ELSE LET filled == DistanceRowCells(word, target, target_len, i, prev_row,
                                        [row EXCEPT ![0] = i], 1)
         IN DistanceRowLoop(word, target, target_len, i + 1, filled, prev_row)

\* edit_distance.c lines 215-268; target_len is at most the length of
\* target (beyond it the loop would read past the terminator); allocOk:
\* whether the buffers the call asks for can be allocated
get_distance_row(word, target, target_len, allocOk) ==
    IF word = NullStr \/ target = NullStr \/ target_len < 0 THEN NullRow
    ELSE IF ~allocOk THEN NullRow
    ELSE LET row == [j \in 0..target_len |-> j] IN
         IF Len(word) = 0 THEN [isNull |-> FALSE, row |-> row]
         ELSE [isNull |-> FALSE,
               row |-> DistanceRowLoop(word, target, target_len, 1, row, row)]

EDIT_INSERT == "EDIT_INSERT"
EDIT_DELETE == "EDIT_DELETE"
EDIT_SUBSTITUTE == "EDIT_SUBSTITUTE"
EDIT_MATCH == "EDIT_MATCH"

\* the NULL EditResult
NullResult == [isNull |-> TRUE]

\* lines 122-134: the full matrix, filled in row-major order from cell (i, j)
RECURSIVE FillMatrix(_, _, _, _, _)
FillMatrix(w1, w2, dp, i, j) ==
    IF i > Len(w1) THEN dp
    ELSE IF j > Len(w2) THEN FillMatrix(w1, w2, dp, i + 1, 1)
    ELSE LET cell == IF w1[i] = w2[j]
                     THEN dp[i - 1][j - 1]
                     ELSE min3(dp[i - 1][j - 1] + 1, dp[i][j - 1] + 1, dp[i - 1][j] + 1)
         IN FillMatrix(w1, w2, [dp EXCEPT ![i][j] = cell], i, j + 1)

\* lines 114-120: base cases written into the freshly allocated matrix
BaseMatrix(w1, w2) ==
    [i \in 0..Len(w1) |->
        [j \in 0..Len(w2) |-> IF i = 0 THEN j ELSE IF j = 0 THEN i ELSE Unwritten]]

EditOp(type, from, to, pos) ==
    [type |-> type, from_char |-> from, to_char |-> to, position |-> pos]

\* slip: the deletion branch is missing
RECURSIVE Backtrack_NoDelete(_, _, _, _, _, _)
Backtrack_NoDelete(w1, w2, dp, i, j, ops) ==
    IF ~(i > 0 \/ j > 0) THEN [ends |-> TRUE, ops |-> ops]
    ELSE IF i > 0 /\ j > 0 /\ w1[i] = w2[j]
    THEN Backtrack_NoDelete(w1, w2, dp, i - 1, j - 1,
                   Append(ops, EditOp(EDIT_MATCH, w1[i], w2[j], i - 1)))
    ELSE IF i > 0 /\ j > 0 /\ dp[i][j] = dp[i - 1][j - 1] + 1
    THEN Backtrack_NoDelete(w1, w2, dp, i - 1, j - 1,
                   Append(ops, EditOp(EDIT_SUBSTITUTE, w1[i], w2[j], i - 1)))
    ELSE IF j > 0 /\ dp[i][j] = dp[i][j - 1] + 1
    THEN Backtrack_NoDelete(w1, w2, dp, i, j - 1,
                   Append(ops, EditOp(EDIT_INSERT, 0, w2[j], i)))
    ELSE [ends |-> FALSE, ops |-> ops]

\* slip: the insertion is tried before the substitution
RECURSIVE Backtrack_InsertFirst(_, _, _, _, _, _)
Backtrack_InsertFirst(w1, w2, dp, i, j, ops) ==
    IF ~(i > 0 \/ j > 0) THEN [ends |-> TRUE, ops |-> ops]
    ELSE IF i > 0 /\ j > 0 /\ w1[i] = w2[j]
    THEN Backtrack_InsertFirst(w1, w2, dp, i - 1, j - 1,
                   Append(ops, EditOp(EDIT_MATCH, w1[i], w2[j], i - 1)))
    ELSE IF j > 0 /\ dp[i][j] = dp[i][j - 1] + 1
    THEN Backtrack_InsertFirst(w1, w2, dp, i, j - 1,
                   Append(ops, EditOp(EDIT_INSERT, 0, w2[j], i)))
    ELSE IF i > 0 /\ j > 0 /\ dp[i][j] = dp[i - 1][j - 1] + 1
    THEN Backtrack_InsertFirst(w1, w2, dp, i - 1, j - 1,
                   Append(ops, EditOp(EDIT_SUBSTITUTE, w1[i], w2[j], i - 1)))
    ELSE IF i > 0 /\ dp[i][j] = dp[i - 1][j] + 1
    THEN Backtrack_InsertFirst(w1, w2, dp, i - 1, j,
                   Append(ops, EditOp(EDIT_DELETE, w1[i], 0, i - 1)))
    ELSE [ends |-> FALSE, ops |-> ops]

\* lines 155-191: the backtracking loop from cell (i, j); ops holds the
\* operations found so far, in the order found. When no branch applies the
\* C loop repeats without changing i or j: it never ends.
RECURSIVE Backtrack(_, _, _, _, _, _)
Backtrack(w1, w2, dp, i, j, ops) ==
    IF ~(i > 0 \/ j > 0) THEN [ends |-> TRUE, ops |-> ops]
    ELSE IF i > 0 /\ j > 0 /\ w1[i] = w2[j]
    THEN Backtrack(w1, w2, dp, i - 1, j - 1,
                   Append(ops, EditOp(EDIT_MATCH, w1[i], w2[j], i - 1)))
    ELSE IF i > 0 /\ j > 0 /\ dp[i][j] = dp[i - 1][j - 1] + 1
    THEN Backtrack(w1, w2, dp, i - 1, j - 1,
                   Append(ops, EditOp(EDIT_SUBSTITUTE, w1[i], w2[j], i - 1)))
    ELSE IF j > 0 /\ dp[i][j] = dp[i][j - 1] + 1
    THEN Backtrack(w1, w2, dp, i, j - 1,
                   Append(ops, EditOp(EDIT_INSERT, 0, w2[j], i)))
    ELSE IF i > 0 /\ dp[i][j] = dp[i - 1][j] + 1
    THEN Backtrack(w1, w2, dp, i - 1, j,
                   Append(ops, EditOp(EDIT_DELETE, w1[i], 0, i - 1)))
    ELSE [ends |-> FALSE, ops |-> ops]

\* slip: the operations are left in the order the backtracking found them
Reverse_None(ops) == ops

\* lines 195-200
Reverse(ops) == [k \in 1..Len(ops) |-> ops[Len(ops) + 1 - k]]

\* allocOk: whether the result, the matrix and the operations buffer can all
\* be allocated (lines 89-112, 140-149)
compute_edit_operations(w1, w2, allocOk) ==
    IF w1 = NullStr \/ w2 = NullStr THEN NullResult
    ELSE IF ~allocOk THEN NullResult
    ELSE LET dp == FillMatrix(w1, w2, BaseMatrix(w1, w2), 1, 1)
             bt == Backtrack(w1, w2, dp, Len(w1), Len(w2), <<>>)
         IN [isNull |-> FALSE,
             ends |-> bt.ends,
             distance |-> dp[Len(w1)][Len(w2)],
             operations |-> Reverse(bt.ops),
             operation_count |-> Len(bt.ops)]

-----------------------------------------------------------------------------
(* Enumeration (trie.c) and the suggestion ranker (spell_check.c).         *)
(* The allocations of trie_get_all_words and generate_suggestions are      *)
(* taken to succeed, and a dictionary holds fewer words than the initial   *)
(* capacity of 100, so the array is never grown.                           *)

AlphabetSize == 26

\* slip: the node's own word is not collected when the node has children
OwnWord_LeavesOnly(t, node, prefix, words) ==
    IF t.nodes[node].is_end_of_word
       /\ \A i \in 0..25 : ChildIsNull(t, node, i)
    THEN Append(words, prefix) ELSE words

\* lines 180-196: the word that ends at this node is added
OwnWord(t, node, prefix, words) ==
    IF t.nodes[node].is_end_of_word THEN Append(words, prefix) ELSE words

RECURSIVE trie_collect_words(_, _, _, _)
RECURSIVE CollectChildren(_, _, _, _, _)

\* slip: the children are collected before the node's own word
trie_collect_words_ChildrenFirst(t, node, prefix, words) ==
    OwnWord(t, node, prefix, CollectChildren(t, node, prefix, 0, words))

\* lines 174-214: depth-first, the node's own word first, then the children
\* in index order; words is the array filled so far
trie_collect_words(t, node, prefix, words) ==
    CollectChildren(t, node, prefix, 0, OwnWord(t, node, prefix, words))

\* lines 198-213: the loop over the child slots from i on; the slots that
\* hold NULL are passed over in one step
CollectChildren(t, node, prefix, i, words) ==
    LET present == {k \in i..(AlphabetSize - 1) : ~ChildIsNull(t, node, k)} IN
    IF present = {} THEN words
    ELSE LET k == CHOOSE k \in present : \A m \in present : k <= m IN
         CollectChildren(t, node, prefix, k + 1,
             trie_collect_words(t, Append(node, k), Append(prefix, LowerA + k), words))

\* lines 216-242: the array (NULL, here the empty array, when no word was
\* found) and the count
trie_get_all_words(t) ==
    LET words == trie_collect_words(t, <<>>, <<>>, <<>>) IN
    [words |-> words, count |-> Len(words)]

\* slip: the exact match (distance 0) and the error value pass the filter
InBand_NoLower(distance) == distance <= 2

\* line 450
InBand(distance) == distance <= 2 /\ distance > 0

\* lines 448-455: the candidates among all_words[i..], in array order
RECURSIVE FindCandidates(_, _, _, _)
FindCandidates(misspelled_word, all_words, i, candidates) ==
    IF i > Len(all_words) THEN candidates
    ELSE LET distance == compute_edit_distance(misspelled_word, all_words[i], TRUE) IN
         FindCandidates(misspelled_word, all_words, i + 1,
             IF InBand(distance)
             THEN Append(candidates, [word |-> all_words[i], distance |-> distance])
             ELSE candidates)

\* slip: neighbours of equal distance are swapped too
RECURSIVE BubblePass_SwapsEqual(_, _, _)
BubblePass_SwapsEqual(c, j, last) ==
    IF j > last THEN c
    ELSE BubblePass_SwapsEqual(IF c[j].distance >= c[j + 1].distance
                               THEN [c EXCEPT ![j] = c[j + 1], ![j + 1] = c[j]]
                               ELSE c,
                               j + 1, last)

\* lines 470-476: one pass of adjacent swaps over positions j..last
RECURSIVE BubblePass(_, _, _)
BubblePass(c, j, last) ==
    IF j > last THEN c
    ELSE BubblePass(IF c[j].distance > c[j + 1].distance
                    THEN [c EXCEPT ![j] = c[j + 1], ![j + 1] = c[j]]
                    ELSE c,
                    j + 1, last)

\* lines 469-477: pass i (0-based) of candidate_count - 1 passes
RECURSIVE BubbleSort(_, _)
BubbleSort(c, i) ==
    IF i >= Len(c) - 1 THEN c
    ELSE BubbleSort(BubblePass(c, 1, Len(c) - i - 1), i + 1)

SuggestionCap == 5

\* slip: every candidate is returned
MaxSuggestions_NoCap(candidate_count) == candidate_count

\* line 480
MaxSuggestions(candidate_count) ==
    IF candidate_count < SuggestionCap THEN candidate_count ELSE SuggestionCap

\* lines 413-503; count is the caller's *count before the call. A NULL
\* result is the record with isNull.
generate_suggestions(misspelled_word, t, count) ==
    IF misspelled_word = NullStr
    THEN [isNull |-> TRUE, suggestions |-> <<>>, count |-> count]
    ELSE LET all == trie_get_all_words(t) IN
         IF all.count = 0
         THEN [isNull |-> TRUE, suggestions |-> <<>>, count |-> 0]
         ELSE LET candidates == FindCandidates(misspelled_word, all.words, 1, <<>>) IN
              IF Len(candidates) = 0
              THEN [isNull |-> TRUE, suggestions |-> <<>>, count |-> 0]
              ELSE LET sorted == BubbleSort(candidates, 0)
                       max_suggestions == MaxSuggestions(Len(candidates))
                   IN [isNull |-> FALSE,
                       suggestions |-> [k \in 1..max_suggestions |-> sorted[k].word],
                       count |-> max_suggestions]

-----------------------------------------------------------------------------
(* Tokens (file_io.c) and the check orchestrator (spell_check.c).          *)
(* spell_check_document is modelled one loop iteration per step. Its       *)
(* allocations are taken to succeed except the realloc that grows          *)
(* result->errors, whose failure is an input of the step.                  *)

isalpha(c) == (c >= 65 /\ c <= 90) \/ (c >= 97 /\ c <= 122)
isupper(c) == c >= 65 /\ c <= 90

\* file_io.c lines 112-156: the alphabetic characters, lower-cased; NULL
\* when the input is absent, empty, longer than 100 or has no letter
normalize_word(word) ==
    IF word = NullStr \/ Len(word) = 0 \/ Len(word) > 100 THEN NullStr
    ELSE LET letters == SelectSeq(word, isalpha)
             normalized == [i \in 1..Len(letters) |-> tolower(letters[i])]
         IN IF Len(normalized) = 0 THEN NullStr ELSE normalized

\* file_io.c lines 183-191: no character more than 3 times in a row
RECURSIVE RepeatLoop(_, _, _)
RepeatLoop(word, i, consecutive_count) ==
    IF i > Len(word) THEN TRUE
    ELSE IF word[i] = word[i - 1]
    THEN IF consecutive_count + 1 > 3 THEN FALSE
         ELSE RepeatLoop(word, i + 1, consecutive_count + 1)
    ELSE RepeatLoop(word, i + 1, 1)

\* file_io.c lines 158-194
is_valid_word(word) ==
    IF word = NullStr \/ Len(word) = 0 THEN FALSE
    ELSE IF \E i \in 1..Len(word) : ~isalpha(word[i]) THEN FALSE
    ELSE IF Len(word) < 2 \/ Len(word) > 50 THEN FALSE
    ELSE RepeatLoop(word, 2, 1)

isprint(c) == c >= 32 /\ c <= 126
isspace(c) == (c >= 9 /\ c <= 13) \/ c = 32

\* slip: a line with a character that is neither printable nor space is
\* not set aside
HasInvalidChars_Never(line) == FALSE

\* file_io.c lines 54-61
HasInvalidChars(line) == \E i \in 1..Len(line) : ~isprint(line[i]) /\ ~isspace(line[i])

\* file_io.c lines 30-86: the loop over the lines fgets delivers (each
\* shorter than the buffer, its newline removed), from line i on; the
\* result is the dictionary, words_loaded and the words inserted. The
\* nodes trie_insert needs are taken to be allocated.
RECURSIVE LoadLines(_, _, _, _, _)
LoadLines(t, lines, i, words_loaded, words) ==
    IF i > Len(lines)
    THEN [trie |-> t, words_loaded |-> words_loaded, words |-> words]
    ELSE LET line == lines[i] IN
         IF Len(line) = 0 THEN LoadLines(t, lines, i + 1, words_loaded, words)
         ELSE IF HasInvalidChars(line)
         THEN LoadLines(t, lines, i + 1, words_loaded, words)
         ELSE LET normalized == normalize_word(line) IN
              IF normalized # NullStr /\ is_valid_word(normalized)
              THEN LET r == trie_insert(t, normalized, Len(normalized)) IN
                   IF r.ret
                   THEN LoadLines(r.trie, lines, i + 1, words_loaded + 1,
                                  words \cup {normalized})
                   ELSE LoadLines(r.trie, lines, i + 1, words_loaded, words)
              ELSE LoadLines(t, lines, i + 1, words_loaded, words)

\* file_io.c lines 12-110. openOk is the outcome of fopen; delivered is the
\* number of lines fgets returns before end of file or a read error. With
\* or without a read error the value returned is words_loaded > 0.
load_dictionary(filename, t, file, openOk, delivered) ==
    IF filename = NullStr THEN [ret |-> FALSE, trie |-> t, words |-> {}]
    ELSE IF ~openOk THEN [ret |-> FALSE, trie |-> t, words |-> {}]
    ELSE LET l == LoadLines(t, SubSeq(file, 1, delivered), 1, 0, {}) IN
         [ret |-> l.words_loaded > 0, trie |-> l.trie, words |-> l.words]

\* file_io.c lines 300-333: the tokenizer stores a token for a piece of text
\* only when its normalized form exists and is a valid word
Storable(original) ==
    normalize_word(original) # NullStr /\ is_valid_word(normalize_word(original))

\* file_io.c lines 319-330
MakeToken(original, line_number, position) ==
    [word |-> normalize_word(original), original_word |-> original,
     line_number |-> line_number, position |-> position]

TextDocument(tokens) == [isNull |-> FALSE, tokens |-> tokens]

ispunct(c) == isprint(c) /\ c # 32 /\ ~isalpha(c) /\ ~(c >= 48 /\ c <= 57)

IsSeparator(c) == isspace(c) \/ ispunct(c)

\* file_io.c lines 345-348: the index of the first character from i on that
\* is no separator, or the length of the line (indexes count from 0)
RECURSIVE SkipSeparators(_, _)
SkipSeparators(line, i) ==
    IF i < Len(line) /\ IsSeparator(line[i + 1]) THEN SkipSeparators(line, i + 1)
    ELSE i

\* file_io.c lines 290-355: the loop over the characters of one line and the
\* terminator; i and token_start count from 0. The arrays the tokens need
\* are taken to be allocated.
RECURSIVE TokenLoop(_, _, _, _, _, _)
TokenLoop(line, line_number, i, token_start, position, tokens) ==
    IF i > Len(line) THEN tokens
    ELSE LET c == IF i < Len(line) THEN line[i + 1] ELSE 0 IN
         IF IsSeparator(c) \/ c = 0
         THEN LET text == SubSeq(line, token_start + 1, i)
                  stored == IF token_start < i /\ Storable(text)
                            THEN Append(tokens, MakeToken(text, line_number, position))
                            ELSE tokens
                  j == SkipSeparators(line, i)
              IN IF i < Len(line) /\ j < Len(line)
                 THEN TokenLoop(line, line_number, j, j, j, stored)
                 ELSE TokenLoop(line, line_number, j + 1, token_start,
                                position + (j - i), stored)
         ELSE TokenLoop(line, line_number, i + 1, token_start, position, tokens)

\* file_io.c lines 286-358: the tokens of one line of text
TokenizeLine(line, line_number) == TokenLoop(line, line_number, 0, 0, 0, <<>>)

\* spell_check.c lines 370-372
is_alpha_char(c) == (c >= 97 /\ c <= 122) \/ (c >= 65 /\ c <= 90)

\* spell_check.c lines 377-388
is_alphabetic_word(word) ==
    IF word = NullStr \/ Len(word) = 0 THEN FALSE
    ELSE \A i \in 1..Len(word) : is_alpha_char(word[i])

\* spell_check.c lines 393-408; original_word[0] of an empty string is the
\* terminator, which is not upper case
is_likely_proper_noun(word, token) ==
    IF word = NullStr \/ token.original_word = NullStr THEN FALSE
    ELSE IF Len(token.original_word) > 0 /\ isupper(token.original_word[1])
    THEN IF token.position = 0 THEN FALSE ELSE TRUE
    ELSE FALSE

InitialMaxErrors == 100

\* lines 563-583: the entry written at errors[error_count]. The count
\* handed to generate_suggestions is the uninitialised suggestion_count,
\* which generate_suggestions overwrites because the word is present.
SpellError(token, t) ==
    LET s == generate_suggestions(token.word, t, 0) IN
    [misspelled_word |-> token.word,
     original_word |-> token.original_word,
     line_number |-> token.line_number,
     position |-> token.position,
     suggestions |-> s.suggestions,
     suggestion_count |-> s.count,
     suggestion_scores |-> IF s.count > 0 THEN [j \in 1..s.count |-> j - 1] ELSE <<>>]

\* slip: the entry is written but error_count is not advanced
AppendError_NoCount(r, token, t) ==
    [r EXCEPT !.errors = Append(@, SpellError(token, t))]

\* lines 560-585
AppendError(r, token, t) ==
    [r EXCEPT !.errors = Append(@, SpellError(token, t)),
              !.error_count = @ + 1]

\* slip: the word is checked without being counted
CountChecked_Skips(r) == r

\* line 543: result->total_words_checked++
CountChecked(r) == [r EXCEPT !.total_words_checked = @ + 1]

\* slip: a failed realloc discards what was gathered
OnReallocFailure_DropsAll(r) == [r EXCEPT !.errors = <<>>, !.error_count = 0]

\* lines 554-558: realloc returned NULL; result->errors still points to the
\* old array, whose entries and count are left as they are
OnReallocFailure(r) == r

\* lines 536-587: the body of the loop for one token. brk tells that the
\* loop was left by break; reallocOk is the outcome of the realloc, should
\* the array be full.
LoopBody(r, cap, token, t, reallocOk) ==
    IF ~is_valid_word(token.word) \/ ~is_alphabetic_word(token.word)
    THEN [result |-> r, max_errors |-> cap, brk |-> FALSE]
    ELSE LET counted == CountChecked(r) IN
         IF trie_search(t, token.word)
         THEN [result |-> counted, max_errors |-> cap, brk |-> FALSE]
         ELSE IF is_likely_proper_noun(token.word, token)
         THEN [result |-> counted, max_errors |-> cap, brk |-> FALSE]
         ELSE IF counted.error_count >= cap
         THEN IF reallocOk
              THEN [result |-> AppendError(counted, token, t),
                    max_errors |-> cap * 2, brk |-> FALSE]
              ELSE [result |-> OnReallocFailure(counted), max_errors |-> cap * 2,
                    brk |-> TRUE]
         ELSE [result |-> AppendError(counted, token, t),
               max_errors |-> cap, brk |-> FALSE]

\* slip: a rejected word is added to the dictionary
DictionaryAfter_Learns(t, token) ==
    IF trie_search(t, token.word) THEN t
    ELSE trie_insert(t, token.word, Len(token.word)).trie

\* lines 545, 566: the dictionary after the iteration; trie_search and
\* generate_suggestions (through trie_get_all_words) only read it
DictionaryAfter(t, token) == t

\* lines 536-567: the token after the iteration; its fields are only read
\* and copied
TokenAfter(token) == token

\* api_client.c lines 51-75; curlOk is the outcome of curl_global_init
api_client_init(api_key, curlOk) ==
    IF api_key = NullStr \/ Len(api_key) = 0 THEN FALSE
    ELSE curlOk

-----------------------------------------------------------------------------
(* The oracle client (api_client.c) and the front end's single-word check  *)
(* (Header.js). The exchange with the service is an input: whether the     *)
(* transfer succeeded, the HTTP status, the time it took and the body. A   *)
(* body is unparsable, a JSON value that is not an array, or an array of   *)
(* items; an item is a string (a suggestion) or an object (an entry) with  *)
(* its meta.id, NullStr when the entry has none.                           *)

JsonInvalid == [kind |-> "invalid", items |-> <<>>]
JsonObject == [kind |-> "object", items |-> <<>>]
JsonArray(items) == [kind |-> "array", items |-> items]
JsonString(value) == [type |-> "string", id |-> value]
JsonEntry(id) == [type |-> "object", id |-> id]

\* slip: a body that does not parse counts as an entry
parse_json_response_Lenient(json) ==
    json.kind = "invalid" \/ (json.kind = "array" /\ Len(json.items) > 0
                                /\ json.items[1].type = "object")

\* api_client.c lines 87-129 (the definition out-parameter is not modelled)
parse_json_response(json) ==
    IF json.kind = "invalid" THEN FALSE
    ELSE IF json.kind = "array"
    THEN IF Len(json.items) > 0
         THEN IF json.items[1].type = "object" THEN TRUE ELSE FALSE
         ELSE FALSE
    ELSE FALSE

\* slip: the request is made whether or not the client is initialised
make_api_request_NoInitCheck(word, initialized, x) ==
    IF ~x.curlInit \/ ~x.transferOk \/ x.http # 200
    THEN [isNull |-> FALSE, word_found |-> FALSE, error_message |-> TRUE,
          response_time_ms |-> x.time, http_status |-> x.http]
    ELSE [isNull |-> FALSE, word_found |-> parse_json_response(x.body),
          error_message |-> FALSE,
          response_time_ms |-> x.time, http_status |-> x.http]

\* api_client.c lines 134-201; NULL is the record with isNull
make_api_request(word, initialized, x) ==
    IF ~initialized THEN [isNull |-> TRUE]
    ELSE IF ~x.curlInit
    THEN [isNull |-> FALSE, word_found |-> FALSE, error_message |-> TRUE,
          response_time_ms |-> 0, http_status |-> 0]
    ELSE IF ~x.transferOk
    THEN [isNull |-> FALSE, word_found |-> FALSE, error_message |-> TRUE,
          response_time_ms |-> x.time, http_status |-> x.http]
    ELSE IF x.http = 200
    THEN [isNull |-> FALSE, word_found |-> parse_json_response(x.body),
          error_message |-> FALSE,
          response_time_ms |-> x.time, http_status |-> x.http]
    ELSE [isNull |-> FALSE, word_found |-> FALSE, error_message |-> TRUE,
          response_time_ms |-> x.time, http_status |-> x.http]

\* api_client.c lines 206-250: the value returned and the new g_stats
fetch_from_api(word, initialized, stats, x) ==
    IF word = NullStr \/ Len(word) = 0 THEN [ret |-> -1, stats |-> stats]
    ELSE LET counted == [stats EXCEPT !.total_requests = @ + 1]
             response == make_api_request(word, initialized, x)
         IN
         IF response.isNull
         THEN [ret |-> -1, stats |-> [counted EXCEPT !.failed_requests = @ + 1]]
         ELSE LET timed == [counted EXCEPT
                      !.total_response_time = @ + response.response_time_ms,
                      !.avg_response_time =
                          [num |-> counted.total_response_time + response.response_time_ms,
                           den |-> counted.total_requests]]
              IN
              IF response.error_message
              THEN [ret |-> -1, stats |-> [timed EXCEPT !.failed_requests = @ + 1]]
              ELSE IF response.word_found
              THEN [ret |-> 1,
                    stats |-> [timed EXCEPT !.successful_requests = @ + 1,
                                            !.words_found = @ + 1]]
              ELSE [ret |-> 0,
                    stats |-> [timed EXCEPT !.successful_requests = @ + 1,
                                            !.words_not_found = @ + 1]]

\* slip: a request that finds the client uninitialised is not counted as
\* failed
fetch_word_details_DropsFailure(word, initialized, stats, x) ==
    IF word = NullStr \/ Len(word) = 0 THEN [ret |-> [isNull |-> TRUE], stats |-> stats]
    ELSE LET counted == [stats EXCEPT !.total_requests = @ + 1]
             response == make_api_request(word, initialized, x)
         IN
         IF response.isNull THEN [ret |-> response, stats |-> counted]
         ELSE [ret |-> response,
               stats |-> [counted EXCEPT !.successful_requests = @ + 1,
                                         !.words_not_found = @ + 1]]

\* api_client.c lines 255-286: the response returned (NULL as the record
\* with isNull) and the new g_stats
fetch_word_details(word, initialized, stats, x) ==
    IF word = NullStr \/ Len(word) = 0 THEN [ret |-> [isNull |-> TRUE], stats |-> stats]
    ELSE LET counted == [stats EXCEPT !.total_requests = @ + 1]
             response == make_api_request(word, initialized, x)
         IN
         IF response.isNull
         THEN [ret |-> response, stats |-> [counted EXCEPT !.failed_requests = @ + 1]]
         ELSE LET timed == [counted EXCEPT
                      !.total_response_time = @ + response.response_time_ms,
                      !.avg_response_time =
                          [num |-> counted.total_response_time + response.response_time_ms,
                           den |-> counted.total_requests]]
              IN
              IF response.error_message
              THEN [ret |-> response, stats |-> [timed EXCEPT !.failed_requests = @ + 1]]
              ELSE IF response.word_found
              THEN [ret |-> response,
                    stats |-> [timed EXCEPT !.successful_requests = @ + 1,
                                            !.words_found = @ + 1]]
              ELSE [ret |-> response,
                    stats |-> [timed EXCEPT !.successful_requests = @ + 1,
                                            !.words_not_found = @ + 1]]

\* api_client.c lines 298-300: memset(&g_stats, 0, sizeof(APIStats))
reset_api_stats == ZeroStats

\* Header.js line 232: meta.id.split(':')[0].toLowerCase()
RECURSIVE SplitColon(_, _)
SplitColon(id, i) ==
    IF i > Len(id) \/ id[i] = 58 THEN SubSeq(id, 1, i - 1)
    ELSE SplitColon(id, i + 1)

toLowerCase(w) == [i \in 1..Len(w) |-> tolower(w[i])]

\* Header.js lines 280-300, 354-360: which suggestions are shown
generateSuggestions(word, apiSuggestions) ==
    IF Len(apiSuggestions) > 0 /\ apiSuggestions[1].type = "string"
    THEN "api" ELSE "local"

\* Header.js lines 204-277: the status shown and the source of suggestions.
\* A failed fetch, a status that is not ok, an unparsable body and a read
\* of meta.id on an entry without it all end in the catch block.
checkViaAPI(word, x) ==
    LET caught == [status |-> "incorrect", message |-> "API unavailable",
                   suggestions |-> generateSuggestions(word, <<>>)]
        notFound(data) == [status |-> "incorrect", message |-> "Word not found",
                           suggestions |-> generateSuggestions(word, data)]
    IN
    IF ~x.transferOk \/ x.http # 200 \/ x.body.kind = "invalid" THEN caught
    ELSE IF x.body.kind = "array" /\ Len(x.body.items) > 0
    THEN LET data == x.body.items
             firstResult == data[1]
         IN
         IF firstResult.type = "object"
         THEN IF firstResult.id = NullStr THEN caught
              ELSE LET apiWord == toLowerCase(SplitColon(firstResult.id, 1))
                       searchWord == toLowerCase(word)
                   IN IF apiWord = searchWord
                      THEN [status |-> "verified", message |-> "Verified via API",
                            suggestions |-> "none"]
                      ELSE IF Len(data) > 1 /\ data[2].type = "string"
                      THEN notFound(data)
                      ELSE notFound(<<>>)
         ELSE notFound(data)
    ELSE notFound(<<>>)

\* Header.js lines 83-113: some words of the front end's local dictionary
localDictionary == {Hello, World, Help}

\* Header.js lines 166-194; the input is taken trimmed
checkSpelling(input, x) ==
    LET word == toLowerCase(input) IN
    IF Len(word) = 0
    THEN [status |-> "error", message |-> "Please enter a word",
          suggestions |-> "none", queried |-> FALSE]
    ELSE IF word \in localDictionary
    THEN [status |-> "correct", message |-> "Found in local Trie dictionary",
          suggestions |-> "none", queried |-> FALSE]
    ELSE LET r == checkViaAPI(word, x) IN
         [status |-> r.status, message |-> r.message,
          suggestions |-> r.suggestions, queried |-> TRUE]

-----------------------------------------------------------------------------
(* The dictionary specification: any sequence of trie_insert and           *)
(* trie_search calls on a dictionary obtained from trie_create.            *)

InitTrie ==
    /\ trie = trie_create
    /\ inserted = {}
    /\ ret = [op |-> "trie_create", word |-> NullStr, val |-> TRUE]
    /\ nops = 0
    /\ word1 = NullStr /\ word2 = NullStr
    /\ CheckIdle /\ ApiIdle

\* word_count after the call stays within the cap
DupWithinCap(t) == \A p \in DOMAIN t.nodes : t.nodes[p].word_count <= MaxDup

TrieInsert ==
    /\ nops < MaxOps
    /\ \E word \in TrieWords \cup {NullStr}, budget \in 0..MaxWordLen :
          LET r == trie_insert(trie, word, budget) IN
          /\ DupWithinCap(r.trie)
          /\ trie' = r.trie
          /\ inserted' = IF r.ret THEN inserted \cup {word} ELSE inserted
          /\ ret' = [op |-> "trie_insert", word |-> word, val |-> r.ret,
                     nomem |-> r.nomem]
    /\ nops' = nops + 1
    /\ UNCHANGED <<distVars, checkVars, apiVars>>

TrieSearch ==
    /\ nops < MaxOps
    /\ \E word \in TrieWords \cup {NullStr} :
          ret' = [op |-> "trie_search", word |-> word, val |-> trie_search(trie, word)]
    /\ nops' = nops + 1
    /\ UNCHANGED <<trieVars, distVars, checkVars, apiVars>>

NextTrie == TrieInsert \/ TrieSearch

SpecTrie == InitTrie /\ [][NextTrie]_vars

-----------------------------------------------------------------------------
(* The distance specification: the engine's functions applied to every     *)
(* pair of inputs: all strings over {a, b} up to MaxStrLen, the documented *)
(* example pair, and the absent string.                                    *)

DistChars == {97, 98}
Kitten == <<107, 105, 116, 116, 101, 110>>
Sitting == <<115, 105, 116, 116, 105, 110, 103>>
DistInputs == Strings(DistChars, MaxStrLen) \cup {Kitten, Sitting, NullStr}

InitDist ==
    /\ word1 \in DistInputs
    /\ word2 \in DistInputs
    /\ ret = [op |-> "none"]
    /\ trie = trie_create /\ inserted = {} /\ nops = 0
    /\ CheckIdle /\ ApiIdle

ComputeEditDistance ==
    /\ \E allocOk \in BOOLEAN :
          ret' = [op |-> "compute_edit_distance", allocOk |-> allocOk,
                  val |-> compute_edit_distance(word1, word2, allocOk)]
    /\ UNCHANGED <<trieVars, distVars, nops, checkVars, apiVars>>

ComputeEditOperations ==
    /\ \E allocOk \in BOOLEAN :
          ret' = [op |-> "compute_edit_operations", allocOk |-> allocOk,
                  val |-> compute_edit_operations(word1, word2, allocOk)]
    /\ UNCHANGED <<trieVars, distVars, nops, checkVars, apiVars>>

GetDistanceRow ==
    /\ \E allocOk \in BOOLEAN,
          target_len \in -1..(IF word2 = NullStr THEN 0 ELSE Len(word2)) :
          ret' = [op |-> "get_distance_row", allocOk |-> allocOk,
                  target_len |-> target_len,
                  val |-> get_distance_row(word1, word2, target_len, allocOk)]
    /\ UNCHANGED <<trieVars, distVars, nops, checkVars, apiVars>>

NextDist == ComputeEditDistance \/ ComputeEditOperations \/ GetDistanceRow

SpecDist == InitDist /\ [][NextDist]_vars

-----------------------------------------------------------------------------
(* The suggestion specification: dictionaries of up to MaxDictWords words  *)
(* built by trie_insert from a vocabulary around the misspelling helo, and *)
(* generate_suggestions called on them.                                    *)

Vocabulary == {Halo, He, Held, Hell, Hello, Help, Hole, World, Cat}
Misspellings == {Helo, Bat, Xyz, Hello, <<>>, NullStr}

InitSugg ==
    /\ trie = trie_create
    /\ inserted = {}
    /\ ret = [op |-> "trie_create"]
    /\ nops = 0
    /\ word1 = NullStr /\ word2 = NullStr
    /\ CheckIdle /\ ApiIdle

\* a new word is added while the dictionary holds fewer than MaxDictWords
DictInsert ==
    /\ trie.total_words < MaxDictWords
    /\ \E word \in Vocabulary \ inserted :
          LET r == trie_insert(trie, word, Len(word)) IN
          /\ trie' = r.trie
          /\ inserted' = IF r.ret THEN inserted \cup {word} ELSE inserted
          /\ ret' = [op |-> "trie_insert", word |-> word, val |-> r.ret]
    /\ UNCHANGED <<distVars, nops, checkVars, apiVars>>

GenerateSuggestions ==
    /\ \E word \in Misspellings :
          ret' = [op |-> "generate_suggestions", word |-> word,
                  val |-> generate_suggestions(word, trie, -1)]
    /\ UNCHANGED <<trieVars, distVars, nops, checkVars, apiVars>>

NextSugg == DictInsert \/ GenerateSuggestions

SpecSugg == InitSugg /\ [][NextSugg]_vars

-----------------------------------------------------------------------------
(* The document specification: the program's run on a document. The oracle *)
(* client may be initialised first (main, --api-key); then                 *)
(* spell_check_document scans the tokens against a loaded dictionary.      *)

\* pieces of text as the tokenizer meets them: text, line, column
DocTokens ==
    {MakeToken(x[1], x[2], x[3]) :
        x \in {y \in {<<Helo, 1, 0>>, <<Hello, 1, 5>>, <<CapHelo, 2, 0>>,
                       <<CapHelo, 2, 6>>, <<CapHello, 2, 11>>, <<World, 3, 0>>,
                       <<Bat, 3, 6>>, <<<<97>>, 4, 0>>} : Storable(y[1])}}

\* lines of text: "help. Helo", "help Helo", "Helo help", "Hello. Helo!"
SourceTexts ==
    {Help \o <<46, 32>> \o CapHelo, Help \o <<32>> \o CapHelo,
     CapHelo \o <<32>> \o Help, CapHello \o <<46, 32>> \o CapHelo \o <<33>>}

\* a document with one more rejected token than the error array first holds
LongDocument ==
    TextDocument([k \in 1..(InitialMaxErrors + 1) |-> MakeToken(Helo, k, 0)])

Documents ==
    {TextDocument(ts) : ts \in UNION {[1..n -> DocTokens] : n \in 0..MaxTokens}}
        \cup {TextDocument(TokenizeLine(text, 1)) : text \in SourceTexts}
        \cup {LongDocument, NullDoc}

Dictionaries == {<<Hello, Help, World>>, <<Cat>>, <<>>}

\* a dictionary loaded word by word
RECURSIVE LoadWords(_, _, _)
LoadWords(t, words, i) ==
    IF i > Len(words) THEN t
    ELSE LoadWords(trie_insert(t, words[i], Len(words[i])).trie, words, i + 1)

InitCheck ==
    /\ \E words \in Dictionaries :
          /\ trie = LoadWords(trie_create, words, 1)
          /\ inserted = {words[i] : i \in 1..Len(words)}
    /\ doc \in Documents
    /\ idx = 0 /\ pc = "start" /\ result = NullReport /\ max_errors = 0
    /\ ApiIdle
    /\ ret = [op |-> "none"]
    /\ nops = 0
    /\ word1 = NullStr /\ word2 = NullStr

ApiClientInit ==
    /\ pc \in {"idle", "start"}
    /\ \E api_key \in {NullStr, <<>>, ApiKey}, curlOk \in BOOLEAN :
          LET ok == api_client_init(api_key, curlOk) IN
          /\ g_initialized' = ok
          /\ g_stats' = IF ok THEN ZeroStats ELSE g_stats
          /\ ret' = [op |-> "api_client_init", val |-> ok]
    /\ UNCHANGED <<trieVars, distVars, nops, checkVars, threads>>

\* lines 508-532: entry, the result structure and the error array
SpellCheckEnter ==
    /\ pc = "start"
    /\ IF doc.isNull
       THEN /\ pc' = "done"
            /\ UNCHANGED <<result, max_errors>>
       ELSE /\ pc' = "loop"
            /\ result' = [isNull |-> FALSE, errors |-> <<>>, error_count |-> 0,
                          total_words_checked |-> 0]
            /\ max_errors' = InitialMaxErrors
    /\ idx' = 0
    /\ UNCHANGED <<trieVars, distVars, nops, ret, doc, apiVars>>

\* lines 535-588: one iteration
SpellCheckToken ==
    /\ pc = "loop"
    /\ idx < Len(doc.tokens)
    /\ \E reallocOk \in BOOLEAN :
          LET b == LoopBody(result, max_errors, doc.tokens[idx + 1], trie, reallocOk) IN
          /\ result' = b.result
          /\ max_errors' = b.max_errors
          /\ pc' = IF b.brk THEN "done" ELSE "loop"
          /\ idx' = IF b.brk THEN idx ELSE idx + 1
    /\ trie' = DictionaryAfter(trie, doc.tokens[idx + 1])
    /\ doc' = [doc EXCEPT !.tokens[idx + 1] = TokenAfter(@)]
    /\ UNCHANGED <<inserted, distVars, nops, ret, apiVars>>

\* lines 535, 590: the loop ends and the result is returned
SpellCheckReturn ==
    /\ pc = "loop"
    /\ idx >= Len(doc.tokens)
    /\ pc' = "done"
    /\ UNCHANGED <<trieVars, distVars, nops, ret, doc, idx, result, max_errors, apiVars>>

NextCheck == ApiClientInit \/ SpellCheckEnter \/ SpellCheckToken \/ SpellCheckReturn

SpecCheck == InitCheck /\ [][NextCheck]_vars

\* a step of the scan: the call moves on to the loop, to the next token or
\* to its return
ScanAdvance ==
    /\ pc \in {"start", "loop"}
    /\ pc' \in {"loop", "done"}
    /\ idx' \in {idx, idx + 1}
    /\ <<pc, idx>>' # <<pc, idx>>

\* The scan as the sequential program runs it: while the call has not
\* returned, its next step is taken. Initialising the oracle client first
\* is optional.
SpecCheckLive == SpecCheck /\ WF_<<pc, idx>>(ScanAdvance)

-----------------------------------------------------------------------------
(* The oracle specification: the client is initialised, asked about words  *)
(* and cleaned up, and the front end checks single words, each against     *)
(* every exchange the service can produce.                                 *)

Bodies ==
    {JsonInvalid, JsonObject, JsonArray(<<>>),
     JsonArray(<<JsonString(Absolute), JsonString(Absolve)>>),
     JsonArray(<<JsonEntry(Absoluter)>>),
     JsonArray(<<JsonEntry(CapAbsoluter)>>),
     JsonArray(<<JsonEntry(Absolute)>>),
     JsonArray(<<JsonEntry(AbsoluteId1), JsonEntry(Absolute)>>),
     JsonArray(<<JsonEntry(Absolute), JsonString(Absolve)>>),
     JsonArray(<<JsonEntry(NullStr)>>)}

Exchanges ==
    [curlInit : BOOLEAN, transferOk : BOOLEAN, http : {200, 404},
     time : {0, 7}, body : Bodies]

\* an exchange says what it has to: no transfer without a handle, no body
\* without a transfer, no time spent without a handle
WellFormed(x) ==
    /\ (~x.curlInit => (~x.transferOk /\ x.time = 0))
    /\ (~x.transferOk => (x.body = JsonInvalid /\ x.http = 404))

OracleWords == {NullStr, <<>>, Absolute, Absoluter, Hello}

InitOracle ==
    /\ ApiIdle
    /\ ret = [op |-> "none"]
    /\ trie = trie_create /\ inserted = {} /\ nops = 0
    /\ word1 = NullStr /\ word2 = NullStr
    /\ CheckIdle

FetchFromApi ==
    /\ g_stats.total_requests < MaxRequests
    /\ \E word \in OracleWords, x \in {y \in Exchanges : WellFormed(y)} :
          LET r == fetch_from_api(word, g_initialized, g_stats, x) IN
          /\ g_stats' = r.stats
          /\ ret' = [op |-> "fetch_from_api", word |-> word, exchange |-> x,
                     val |-> r.ret]
    /\ UNCHANGED <<trieVars, distVars, nops, checkVars, g_initialized, threads>>

\* api_client.c lines 335-345
ApiClientCleanup ==
    /\ g_initialized
    /\ g_initialized' = FALSE
    /\ ret' = [op |-> "api_client_cleanup"]
    /\ UNCHANGED <<trieVars, distVars, nops, checkVars, g_stats, threads>>

CheckSpelling ==
    /\ \E input \in {<<>>, Hello, CapHello, Absolute, Absoluter, CapAbsoluter},
          x \in {y \in Exchanges : WellFormed(y) /\ y.curlInit /\ y.time = 0} :
          ret' = [op |-> "checkSpelling", word |-> toLowerCase(input), exchange |-> x,
                  val |-> checkSpelling(input, x)]
    /\ UNCHANGED <<trieVars, distVars, nops, checkVars, apiVars>>

\* the exchanges fetch_word_details meets
DetailExchanges ==
    {x \in Exchanges :
        /\ WellFormed(x)
        /\ x.body \in {JsonInvalid, JsonArray(<<>>), JsonArray(<<JsonEntry(Absolute)>>)}}

FetchWordDetails ==
    /\ g_stats.total_requests < MaxRequests
    /\ \E word \in {NullStr, <<>>, Absolute}, x \in DetailExchanges :
          LET r == fetch_word_details(word, g_initialized, g_stats, x) IN
          /\ g_stats' = r.stats
          /\ ret' = [op |-> "fetch_word_details", word |-> word, exchange |-> x,
                     val |-> r.ret]
    /\ UNCHANGED <<trieVars, distVars, nops, checkVars, g_initialized, threads>>

ResetApiStats ==
    /\ g_stats' = reset_api_stats
    /\ ret' = [op |-> "reset_api_stats"]
    /\ UNCHANGED <<trieVars, distVars, nops, checkVars, g_initialized, threads>>

NextOracle ==
    \/ ApiClientInit \/ FetchFromApi \/ ApiClientCleanup \/ CheckSpelling
    \/ FetchWordDetails \/ ResetApiStats

SpecOracle == InitOracle /\ [][NextOracle]_vars

-----------------------------------------------------------------------------
(* The loading specification: load_dictionary reads a file into a new      *)
(* dictionary, which is then searched.                                     *)

FileName == <<100, 46, 116, 120, 116>>

\* "he1lo", "he" 0x01 "p", "cat" CR, fifty-one letters, "hello" and 96 digits
LineDigitInside == <<104, 101, 49, 108, 111>>
LineControlChar == <<104, 101, 1, 112>>
LineCarriageReturn == <<99, 97, 116, 13>>
LineFiftyOne == [i \in 1..51 |-> IF i % 2 = 1 THEN 97 ELSE 98]
LineOverHundred == Hello \o [i \in 1..96 |-> 49]

Lines ==
    {<<>>, Hello, CapHello, Help, <<97>>, <<122, 122, 122, 122>>, <<49, 50, 51>>,
     LineDigitInside, LineControlChar, LineCarriageReturn, LineFiftyOne,
     LineOverHundred}

Files == UNION {[1..n -> Lines] : n \in 0..MaxLines}

InitLoad ==
    /\ trie = trie_create
    /\ inserted = {}
    /\ ret = [op |-> "trie_create"]
    /\ nops = 0
    /\ word1 = NullStr /\ word2 = NullStr
    /\ CheckIdle /\ ApiIdle

LoadDictionary ==
    /\ nops = 0
    /\ \E filename \in {NullStr, FileName}, file \in Files, openOk \in BOOLEAN :
       \E delivered \in 0..Len(file) :
          LET r == load_dictionary(filename, trie, file, openOk, delivered) IN
          /\ trie' = r.trie
          /\ inserted' = inserted \cup r.words
          /\ ret' = [op |-> "load_dictionary", file |-> file,
                     opened |-> filename # NullStr /\ openOk,
                     delivered |-> delivered, val |-> r.ret]
    /\ nops' = 1
    /\ UNCHANGED <<distVars, checkVars, apiVars>>

\* trie_search on the loaded dictionary
LoadedSearch ==
    /\ nops = 1
    /\ \E word \in {Hello, Help, Cat, Helo, <<104, 101, 112>>, <<97>>} :
          ret' = [ret EXCEPT !.op = "trie_search", !.val = trie_search(trie, word)]
    /\ nops' = 2
    /\ UNCHANGED <<trieVars, distVars, checkVars, apiVars>>

NextLoad == LoadDictionary \/ LoadedSearch

SpecLoad == InitLoad /\ [][NextLoad]_vars

-----------------------------------------------------------------------------
(* The threads specification: threads call fetch_from_api on an initialised *)
(* client. g_stats is a plain static structure and the function takes no   *)
(* lock, so each ++ on a field is a read followed by a write, and the      *)
(* reads and writes of different threads interleave.                       *)

Threads == 1..NumThreads

IdleThread ==
    [pc |-> "idle", word |-> NullStr, reg |-> 0, response |-> [isNull |-> TRUE],
     calls |-> 0, ret |-> 0]

\* the exchanges the threads meet: a failed transfer, an empty array, an entry
ThreadExchanges ==
    {x \in Exchanges :
        /\ WellFormed(x) /\ x.curlInit /\ x.time = 0
        /\ \/ ~x.transferOk
           \/ /\ x.http = 200
              /\ x.body \in {JsonArray(<<>>), JsonArray(<<JsonEntry(Absolute)>>)}}

InitThreads ==
    /\ g_initialized = TRUE
    /\ g_stats = ZeroStats
    /\ threads = [t \in Threads |-> IdleThread]
    /\ ret = [op |-> "api_client_init", val |-> TRUE]
    /\ trie = trie_create /\ inserted = {} /\ nops = 0
    /\ word1 = NullStr /\ word2 = NullStr
    /\ CheckIdle

ThreadFrame == UNCHANGED <<trieVars, distVars, nops, ret, checkVars, g_initialized>>

\* lines 206-209: the call; an empty word returns -1 at once
ThreadCall(t) ==
    /\ threads[t].pc = "idle"
    /\ threads[t].calls < MaxCalls
    /\ \E word \in {<<>>, Absolute} :
          IF word = NullStr \/ Len(word) = 0
          THEN threads' = [threads EXCEPT ![t].ret = -1, ![t].word = word]
          ELSE threads' = [threads EXCEPT ![t].pc = "total_read", ![t].word = word,
                                          ![t].calls = @ + 1]
    /\ UNCHANGED g_stats
    /\ ThreadFrame

\* line 212, g_stats.total_requests++: the read
ThreadReadTotal(t) ==
    /\ threads[t].pc = "total_read"
    /\ threads' = [threads EXCEPT ![t].reg = g_stats.total_requests,
                                  ![t].pc = "total_write"]
    /\ UNCHANGED g_stats
    /\ ThreadFrame

\* line 212, g_stats.total_requests++: the write
ThreadWriteTotal(t) ==
    /\ threads[t].pc = "total_write"
    /\ g_stats' = [g_stats EXCEPT !.total_requests = threads[t].reg + 1]
    /\ threads' = [threads EXCEPT ![t].pc = "request"]
    /\ ThreadFrame

\* lines 215, 222-223: the request and the response-time statistics (taken
\* in one step here)
ThreadRequest(t) ==
    /\ threads[t].pc = "request"
    /\ \E x \in ThreadExchanges :
          LET response == make_api_request(threads[t].word, g_initialized, x) IN
          /\ threads' = [threads EXCEPT ![t].response = response,
                                        ![t].pc = "outcome_read"]
          /\ g_stats' = IF response.isNull THEN g_stats
                        ELSE [g_stats EXCEPT
                                 !.total_response_time = @ + response.response_time_ms,
                                 !.avg_response_time =
                                     [num |-> g_stats.total_response_time
                                                + response.response_time_ms,
                                      den |-> g_stats.total_requests]]
    /\ ThreadFrame

ThreadFailed(t) == threads[t].response.isNull \/ threads[t].response.error_message

\* lines 217, 228, 233: failed_requests++ or successful_requests++: the read
ThreadReadOutcome(t) ==
    /\ threads[t].pc = "outcome_read"
    /\ threads' = [threads EXCEPT
                      ![t].reg = IF ThreadFailed(t) THEN g_stats.failed_requests
                                 ELSE g_stats.successful_requests,
                      ![t].pc = "outcome_write"]
    /\ UNCHANGED g_stats
    /\ ThreadFrame

\* lines 217, 228, 233: the write; lines 235-245: words_found++ or
\* words_not_found++ (taken in the same step) and the value returned
ThreadWriteOutcome(t) ==
    /\ threads[t].pc = "outcome_write"
    /\ LET r == threads[t].response IN
       IF ThreadFailed(t)
       THEN /\ g_stats' = [g_stats EXCEPT !.failed_requests = threads[t].reg + 1]
            /\ threads' = [threads EXCEPT ![t].pc = "idle", ![t].ret = -1]
       ELSE IF r.word_found
       THEN /\ g_stats' = [g_stats EXCEPT !.successful_requests = threads[t].reg + 1,
                                          !.words_found = @ + 1]
            /\ threads' = [threads EXCEPT ![t].pc = "idle", ![t].ret = 1]
       ELSE /\ g_stats' = [g_stats EXCEPT !.successful_requests = threads[t].reg + 1,
                                          !.words_not_found = @ + 1]
            /\ threads' = [threads EXCEPT ![t].pc = "idle", ![t].ret = 0]
    /\ ThreadFrame

NextThreads ==
    \E t \in Threads :
        \/ ThreadCall(t)
        \/ ThreadReadTotal(t)
        \/ ThreadWriteTotal(t)
        \/ ThreadRequest(t)
        \/ ThreadReadOutcome(t)
        \/ ThreadWriteOutcome(t)

SpecThreads == InitThreads /\ [][NextThreads]_vars

-----------------------------------------------------------------------------
(* Helpers of the dictionary claims *)

\* w with every letter folded to lower case
Lower(w) == [i \in 1..Len(w) |-> IF w[i] \in 65..90 THEN w[i] + 32 ELSE w[i]]

\* w has a character outside a-z
HasNonLowercase(w) == \E i \in 1..Len(w) : w[i] < LowerA \/ w[i] > LowerZ

\* w has a character that is outside a-z even after case folding
HasNonLetter(w) == HasNonLowercase(Lower(w))

IsProperPrefix(u, v) == Len(u) < Len(v) /\ SubSeq(v, 1, Len(u)) = u

\* C1: every word for which trie_insert has returned true is found by
\* trie_search in the state right after that call and in every later state,
\* whatever trie_insert calls (successful or failing) follow.
C1_InsertedStaysFound == \A w \in inserted : trie_search(trie, w)

\* C1 witness: a word inserted earlier, and the last call inserted another
\* word that extends it.
C1_Witness ==
    /\ ret.op = "trie_insert" /\ ret.val
    /\ \E w \in inserted : IsProperPrefix(Lower(w), Lower(ret.word))

Terminals(t) == {n \in DOMAIN t.nodes : t.nodes[n].is_end_of_word}

\* the distinct words inserted, in the lower-case spelling they are stored in
StoredWords == {Lower(w) : w \in inserted}

\* the node a stored word ends at: the path of its letters' indexes
NodeOf(w) == [i \in 1..Len(w) |-> w[i] - LowerA]

\* a trie_insert call of a word that is already stored returns true, adds
\* one to the duplicate counter of the word's node and changes nothing else
ReinsertOnlyCounts ==
    (ret'.op = "trie_insert" /\ nops' = nops + 1 /\ ret'.word # NullStr
        /\ Lower(ret'.word) \in StoredWords)
      => /\ ret'.val
         /\ trie'.total_words = trie.total_words
         /\ trie' = [trie EXCEPT !.nodes[NodeOf(Lower(ret'.word))].word_count = @ + 1]

\* C13: in every state total_words is the number of nodes flagged
\* word-terminal, which is the number of distinct words successfully
\* inserted, whatever calls (valid, invalid, repeated, failing) came before;
\* and re-inserting a stored word returns true, increments only that node's
\* duplicate counter and leaves total_words unchanged.
C13_TotalWordsCountsTerminals ==
    /\ [](/\ trie.total_words = Cardinality(Terminals(trie))
          /\ Cardinality(Terminals(trie)) = Cardinality(StoredWords))
    /\ [][ReinsertOnlyCounts]_vars

\* C13 witness: a stored word was inserted again (its duplicate counter is
\* 2) in a dictionary that also went through a failed insert leaving a node
\* that is on no stored word's path.
C13_Witness ==
    /\ ret.op = "trie_insert" /\ ret.val
    /\ trie.nodes[NodeOf(Lower(ret.word))].word_count = 2
    /\ trie.total_words = 1
    /\ Cardinality(DOMAIN trie.nodes) >= 2

NodeCount(t) == Cardinality(DOMAIN t.nodes)

\* a trie_insert call: the estimate does not decrease and grows by the cost
\* of one node per node created
InsertChargesNewNodes ==
    (ret'.op = "trie_insert" /\ nops' = nops + 1)
      => /\ trie'.memory_usage >= trie.memory_usage
         /\ trie'.memory_usage - trie.memory_usage
              = SizeofTrieNode * (NodeCount(trie') - NodeCount(trie))
         /\ NodeCount(trie') >= NodeCount(trie)

\* C23: across trie_insert calls the memory estimate never decreases and
\* grows by exactly the cost of one node for each node created, by nothing
\* when none is created; the value trie_get_memory_usage returns is always
\* the running total kept in the dictionary, sizeof(Trie) plus the node
\* cost times the number of nodes, root included.
C23_MemoryEstimateTracksNodes ==
    /\ [](/\ trie_get_memory_usage(trie) = trie.memory_usage
          /\ trie.memory_usage = SizeofTrie + SizeofTrieNode * NodeCount(trie))
    /\ [][InsertChargesNewNodes]_vars

\* C23 witness: after an insert that created nodes and a failed insert that
\* left a node behind, three nodes are charged.
C23_Witness ==
    /\ ret.op = "trie_insert" /\ ~ret.val
    /\ trie.total_words = 1
    /\ NodeCount(trie) = 3
    /\ trie.memory_usage = SizeofTrie + 3 * SizeofTrieNode

\* C14: trie_get_all_words returns exactly the words successfully inserted,
\* in lower case and each once, with count equal to total_words; a word is
\* returned iff trie_search finds it; on a dictionary without words it
\* returns no list and count 0.
C14_EnumerationIsStoredSet ==
    LET all == trie_get_all_words(trie)
        listed == {all.words[k] : k \in 1..Len(all.words)}
    IN /\ listed = StoredWords
       /\ Len(all.words) = Cardinality(listed)
       /\ all.count = Len(all.words)
       /\ all.count = trie.total_words
       /\ \A w \in listed : trie_search(trie, w)
       /\ \A w \in TrieWords : (Lower(w) = w /\ trie_search(trie, w)) => w \in listed
       /\ (StoredWords = {}) => (all.words = <<>> /\ all.count = 0)

\* C14 witness: two words are stored, one a prefix of the other, one of
\* them inserted with an upper-case letter, and both are listed.
C14_Witness ==
    /\ \E u, v \in StoredWords : IsProperPrefix(u, v)
    /\ \E w \in inserted : Lower(w) # w
    /\ trie_get_all_words(trie).count = 2

\* u comes before v in lexicographic order: u is a proper prefix of v, or
\* u has the smaller character where they first differ
LexLess(u, v) ==
    \/ IsProperPrefix(u, v)
    \/ \E i \in 1..Len(u) :
          /\ i <= Len(v)
          /\ u[i] < v[i]
          /\ \A k \in 1..(i - 1) : u[k] = v[k]

\* the words of S in ascending lexicographic order
RECURSIVE SortedWords(_)
SortedWords(S) ==
    IF S = {} THEN <<>>
    ELSE LET least == CHOOSE u \in S : \A v \in S \ {u} : LexLess(u, v) IN
         <<least>> \o SortedWords(S \ {least})

\* the dictionary built from scratch by inserting each word of S once, in
\* ascending order
DictionaryOf(S) == LoadWords(trie_create, SortedWords(S), 1)

\* C29: trie_get_all_words lists the stored words in ascending
\* lexicographic order, a word before its extensions; the list, and with it
\* what generate_suggestions returns for a word, is the one of any
\* dictionary holding the same set of words, whatever the order and the
\* multiplicity of the insertions (and the failed insertions) that built it.
\* Every dictionary is looked at in the state its last trie_insert left.
C29_EnumerationIsLexicographic ==
    ret.op \in {"trie_create", "trie_insert"} =>
        LET all == trie_get_all_words(trie).words IN
        /\ all = SortedWords(StoredWords)
        /\ \A k \in 1..(Len(all) - 1) : LexLess(all[k], all[k + 1])
        /\ generate_suggestions(<<98, 97>>, trie, 0)
              = generate_suggestions(<<98, 97>>, DictionaryOf(StoredWords), 0)

\* C29 witness: a word was inserted after one of its extensions, and the
\* enumeration and the suggestions list the word first.
C29_Witness ==
    /\ ret.op = "trie_insert" /\ ret.val /\ ret.word = <<97>>
    /\ inserted = {<<97>>, <<97, 98>>}
    /\ trie_get_all_words(trie).words = <<<<97>>, <<97, 98>>>>
    /\ generate_suggestions(<<98, 97>>, trie, 0).suggestions = <<<<97>>, <<97, 98>>>>

\* C15 (as claimed): a trie_insert call that returns false leaves the
\* dictionary as it was: the node graph, the memory estimate, the
\* distinct-word count and with them the words found by search.
C15_Original ==
    [][(ret'.op = "trie_insert" /\ nops' = nops + 1 /\ ~ret'.val) => trie' = trie]_vars

-----------------------------------------------------------------------------
(* Helpers of the distance claims *)

\* the strings one single-character insertion, deletion or substitution
\* away from s, with characters taken from cs
OneEdit(s, cs) ==
    {SubSeq(s, 1, i - 1) \o SubSeq(s, i + 1, Len(s)) : i \in 1..Len(s)}
    \cup {SubSeq(s, 1, i) \o <<c>> \o SubSeq(s, i + 1, Len(s)) :
              i \in 0..Len(s), c \in cs}
    \cup {[s EXCEPT ![i] = c] : i \in 1..Len(s), c \in cs}

\* the least k such that b is reached from the strings of reached by k more
\* single-character edits, through strings no longer than cap
RECURSIVE EditsNeeded(_, _, _, _, _)
EditsNeeded(reached, b, cs, cap, k) ==
    IF b \in reached THEN k
    ELSE EditsNeeded(
             reached \cup {t \in UNION {OneEdit(s, cs) : s \in reached} : Len(t) <= cap},
             b, cs, cap, k + 1)

Max(x, y) == IF x > y THEN x ELSE y

\* the Levenshtein distance, by its definition: the minimum number of
\* single-character edits turning a into b
Levenshtein(a, b) == EditsNeeded({a}, b, DistChars, Max(Len(a), Len(b)) + 1, 0)

Present(w) == w # NullStr
Short(w) == Present(w) /\ Len(w) <= MaxStrLen + 1 /\ \A i \in 1..Len(w) : w[i] \in DistChars

\* what C3 says of a value d returned for the present strings a, b
DistanceAsClaimed(a, b, d) ==
    /\ d # -1
    /\ (Short(a) /\ Short(b)) => d = Levenshtein(a, b)
    /\ a = b => d = 0
    /\ Len(a) = 0 => d = Len(b)
    /\ Len(b) = 0 => d = Len(a)
    /\ (a = Kitten /\ b = Sitting) => d = 3

\* C3 as stated: for present strings compute_edit_distance returns the
\* Levenshtein distance and never the sentinel -1.
C3_Original ==
    (ret.op = "compute_edit_distance" /\ Present(word1) /\ Present(word2))
        => DistanceAsClaimed(word1, word2, ret.val)

\* C3 amended: for present strings compute_edit_distance returns the
\* Levenshtein distance (so 0 for equal strings, the other string's length
\* when one is empty, 3 for kitten/sitting), except that it returns -1 when
\* both strings are non-empty and a row buffer cannot be allocated; it
\* returns -1 in no other case with both strings present.
C3_DistanceIsLevenshtein ==
    (ret.op = "compute_edit_distance" /\ Present(word1) /\ Present(word2))
        => IF ret.allocOk \/ Len(word1) = 0 \/ Len(word2) = 0
           THEN DistanceAsClaimed(word1, word2, ret.val)
           ELSE ret.val = -1

\* C3 witness: the documented example has been computed.
C3_Witness ==
    /\ ret.op = "compute_edit_distance" /\ ret.allocOk
    /\ word1 = Kitten /\ word2 = Sitting /\ ret.val = 3

\* the script ops applied to the string a from operation k on: cursor is the
\* number of characters of a consumed so far, out the characters emitted
RECURSIVE ApplyOps(_, _, _, _, _)
ApplyOps(ops, a, k, cursor, out) ==
    IF k > Len(ops) THEN [valid |-> TRUE, consumed |-> cursor, out |-> out]
    ELSE LET op == ops[k] IN
         IF op.position # cursor THEN [valid |-> FALSE]
         ELSE IF op.type = EDIT_INSERT
         THEN ApplyOps(ops, a, k + 1, cursor, Append(out, op.to_char))
         ELSE IF cursor >= Len(a) THEN [valid |-> FALSE]
         ELSE IF op.type = EDIT_DELETE
         THEN ApplyOps(ops, a, k + 1, cursor + 1, out)
         ELSE ApplyOps(ops, a, k + 1, cursor + 1, Append(out, op.to_char))

Returned(op) == ret.op = op /\ ~ret.val.isNull

\* C4: the script returned by compute_edit_operations(a, b), applied to a in
\* order, applies each operation at its recorded 0-based position, consumes
\* exactly a and yields exactly b.
C4_ScriptTransforms ==
    Returned("compute_edit_operations") =>
        /\ ret.val.ends
        /\ LET r == ApplyOps(ret.val.operations, word1, 1, 0, <<>>) IN
           r.valid /\ r.consumed = Len(word1) /\ r.out = word2

HasOp(ops, type) == \E k \in 1..Len(ops) : ops[k].type = type

\* C4 witness: a returned script with a match, a substitution and an
\* insertion.
C4_Witness ==
    /\ Returned("compute_edit_operations")
    /\ HasOp(ret.val.operations, EDIT_MATCH)
    /\ HasOp(ret.val.operations, EDIT_SUBSTITUTE)
    /\ HasOp(ret.val.operations, EDIT_INSERT)

NonMatchCount(ops) == Cardinality({k \in 1..Len(ops) : ops[k].type # EDIT_MATCH})

\* C5: in a result of compute_edit_operations(a, b) the number of non-match
\* operations equals the distance field, and both equal the distance the
\* two-row compute_edit_distance(a, b) returns.
C5_CountIsDistance ==
    Returned("compute_edit_operations") =>
        /\ NonMatchCount(ret.val.operations) = ret.val.distance
        /\ ret.val.distance = compute_edit_distance(word1, word2, TRUE)

\* C5 witness: a returned script with a deletion, a substitution and a match.
C5_Witness ==
    /\ Returned("compute_edit_operations")
    /\ HasOp(ret.val.operations, EDIT_DELETE)
    /\ HasOp(ret.val.operations, EDIT_SUBSTITUTE)
    /\ HasOp(ret.val.operations, EDIT_MATCH)

\* C22: compute_edit_distance(a, b) = compute_edit_distance(b, a) for all
\* strings a and b (both calls having their row buffers); with a string
\* absent both give -1.
C22_DistanceSymmetric ==
    (ret.op = "compute_edit_distance" /\ ret.allocOk) =>
        ret.val = compute_edit_distance(word2, word1, TRUE)

\* C22 witness: the distance from a shorter to a longer, different string
\* was computed.
C22_Witness ==
    /\ ret.op = "compute_edit_distance" /\ ret.allocOk
    /\ word1 = <<97>> /\ word2 = <<98, 97, 98>>
    /\ ret.val = 2

\* C24: get_distance_row(word, target, target_len) with target_len the
\* length of target (or of a prefix of it) returns a row of target_len + 1
\* entries whose entry j is compute_edit_distance(word, first j characters
\* of target); its last entry is the distance to the whole target, and for
\* an empty word the row is 0, 1, ..., target_len.
C24_RowIsDistanceToPrefixes ==
    (/\ ret.op = "get_distance_row" /\ ret.allocOk
     /\ word1 # NullStr /\ word2 # NullStr /\ ret.target_len >= 0) =>
        /\ ~ret.val.isNull
        /\ DOMAIN ret.val.row = 0..ret.target_len
        /\ \A j \in 0..ret.target_len :
              ret.val.row[j] = compute_edit_distance(word1, SubSeq(word2, 1, j), TRUE)
        /\ ret.target_len = Len(word2) =>
              ret.val.row[ret.target_len] = compute_edit_distance(word1, word2, TRUE)
        /\ word1 = <<>> => \A j \in 0..ret.target_len : ret.val.row[j] = j

\* C24 witness: the row of "kitten" against the whole of "sitting" ends in 3.
C24_Witness ==
    /\ ret.op = "get_distance_row" /\ ret.allocOk
    /\ word1 = Kitten /\ word2 = Sitting /\ ret.target_len = Len(Sitting)
    /\ ~ret.val.isNull
    /\ ret.val.row[Len(Sitting)] = 3
    /\ ret.val.row[0] = Len(Kitten)

\* the distance between the first i characters of a and the first j of b
PrefixDistance(a, b, i, j) ==
    compute_edit_distance(SubSeq(a, 1, i), SubSeq(b, 1, j), TRUE)

SubstitutionOptimal(a, b, i, j) ==
    i > 0 /\ j > 0 /\ PrefixDistance(a, b, i, j) = PrefixDistance(a, b, i - 1, j - 1) + 1
InsertionOptimal(a, b, i, j) ==
    j > 0 /\ PrefixDistance(a, b, i, j) = PrefixDistance(a, b, i, j - 1) + 1
DeletionOptimal(a, b, i, j) ==
    i > 0 /\ PrefixDistance(a, b, i, j) = PrefixDistance(a, b, i - 1, j) + 1

\* the script of the reference rule for cell (i, j), first operation first:
\* match, else substitution, else insertion, else deletion
RECURSIVE ReferenceScript(_, _, _, _)
ReferenceScript(a, b, i, j) ==
    IF i = 0 /\ j = 0 THEN <<>>
    ELSE IF i > 0 /\ j > 0 /\ a[i] = b[j]
    THEN Append(ReferenceScript(a, b, i - 1, j - 1),
                [type |-> EDIT_MATCH, from_char |-> a[i], to_char |-> b[j],
                 position |-> i - 1])
    ELSE IF SubstitutionOptimal(a, b, i, j)
    THEN Append(ReferenceScript(a, b, i - 1, j - 1),
                [type |-> EDIT_SUBSTITUTE, from_char |-> a[i], to_char |-> b[j],
                 position |-> i - 1])
    ELSE IF InsertionOptimal(a, b, i, j)
    THEN Append(ReferenceScript(a, b, i, j - 1),
                [type |-> EDIT_INSERT, from_char |-> 0, to_char |-> b[j],
                 position |-> i])
    ELSE Append(ReferenceScript(a, b, i - 1, j),
                [type |-> EDIT_DELETE, from_char |-> a[i], to_char |-> 0,
                 position |-> i - 1])

\* the script ops, read from operation k back to the first, leaves cell
\* (i, j) by a move that no earlier move of the fixed order could replace
RECURSIVE TiesBroken(_, _, _, _, _, _)
TiesBroken(ops, a, b, k, i, j) ==
    IF k = 0 THEN TRUE
    ELSE LET type == ops[k].type
             matching == i > 0 /\ j > 0 /\ a[i] = b[j]
         IN
         IF type = EDIT_MATCH THEN matching /\ TiesBroken(ops, a, b, k - 1, i - 1, j - 1)
         ELSE IF type = EDIT_SUBSTITUTE
         THEN ~matching /\ TiesBroken(ops, a, b, k - 1, i - 1, j - 1)
         ELSE IF type = EDIT_INSERT
         THEN /\ ~matching /\ ~SubstitutionOptimal(a, b, i, j)
              /\ TiesBroken(ops, a, b, k - 1, i, j - 1)
         ELSE /\ ~matching /\ ~SubstitutionOptimal(a, b, i, j)
              /\ ~InsertionOptimal(a, b, i, j)
              /\ TiesBroken(ops, a, b, k - 1, i - 1, j)

\* C25: compute_edit_operations is deterministic: the script it returns for
\* a and b is the script of the rule that, from cell (|a|,|b|) back to the
\* origin, takes the first applicable move in the order match,
\* substitution, insertion, deletion; a substitution is chosen over an
\* insertion or deletion that is optimal too, an insertion over a deletion.
C25_ScriptFollowsFixedOrder ==
    Returned("compute_edit_operations") =>
        /\ ret.val.operations = ReferenceScript(word1, word2, Len(word1), Len(word2))
        /\ ret.val = compute_edit_operations(word1, word2, TRUE)
        /\ TiesBroken(ret.val.operations, word1, word2, Len(ret.val.operations),
                      Len(word1), Len(word2))

\* C25 witness: for "ab" and "ba" the last cell can be left by a
\* substitution or by an insertion, and the script is two substitutions.
C25_Witness ==
    /\ Returned("compute_edit_operations")
    /\ word1 = <<97, 98>> /\ word2 = <<98, 97>>
    /\ SubstitutionOptimal(word1, word2, 2, 2) /\ InsertionOptimal(word1, word2, 2, 2)
    /\ Len(ret.val.operations) = 2
    /\ \A k \in 1..2 : ret.val.operations[k].type = EDIT_SUBSTITUTE

\* one of the four moves applies at cell (i, j)
MoveApplies(a, b, i, j) ==
    \/ i > 0 /\ j > 0 /\ a[i] = b[j]
    \/ SubstitutionOptimal(a, b, i, j)
    \/ InsertionOptimal(a, b, i, j)
    \/ DeletionOptimal(a, b, i, j)

\* the characters of a and of b that the script ops uses up
UsedOfSource(ops) == Cardinality({k \in 1..Len(ops) : ops[k].type # EDIT_INSERT})
UsedOfTarget(ops) == Cardinality({k \in 1..Len(ops) : ops[k].type # EDIT_DELETE})

\* C30: the backtracking loop of compute_edit_operations ends at cell
\* (0,0) for all strings a and b: at every cell but the origin one of the
\* four moves applies, and each move takes one character of a, of b or of
\* both, so i + j decreases; the number of operations is at most |a| + |b|,
\* the capacity of the buffer, and at least max(|a|, |b|).
C30_BacktrackTerminates ==
    Returned("compute_edit_operations") =>
        /\ ret.val.ends
        /\ \A i \in 0..Len(word1), j \in 0..Len(word2) :
              (i > 0 \/ j > 0) => MoveApplies(word1, word2, i, j)
        /\ UsedOfSource(ret.val.operations) = Len(word1)
        /\ UsedOfTarget(ret.val.operations) = Len(word2)
        /\ ret.val.operation_count = Len(ret.val.operations)
        /\ ret.val.operation_count <= Len(word1) + Len(word2)
        /\ ret.val.operation_count >= Max(Len(word1), Len(word2))

\* C30 witness: a script for a longer source that holds a deletion and has
\* as many operations as the source has characters.
C30_Witness ==
    /\ Returned("compute_edit_operations")
    /\ Len(word1) > Len(word2) /\ Len(word2) > 0
    /\ HasOp(ret.val.operations, EDIT_DELETE)
    /\ ret.val.ends
    /\ ret.val.operation_count = Len(word1)

-----------------------------------------------------------------------------
(* Helpers of the suggestion claims *)

Chars(w) == {w[i] : i \in 1..Len(w)}

\* the strings at most one edit away from w
Near(w, cs) == {w} \cup OneEdit(w, cs)

\* the edit distance of a and b by its definition, as far as the band needs
\* it: 0, 1, 2, or 3 for every larger distance. Two strings are two edits
\* apart iff some string is at most one edit from each.
BandDistance(a, b) ==
    LET cs == Chars(a) \cup Chars(b) IN
    IF a = b THEN 0
    ELSE IF b \in OneEdit(a, cs) THEN 1
    ELSE IF Near(a, cs) \cap Near(b, cs) # {} THEN 2
    ELSE 3

SuggestionsFor(word) == ret.op = "generate_suggestions" /\ ret.word = word

\* C6: every suggestion generate_suggestions returns is a stored word at
\* edit distance 1 or 2 from the rejected word, and when no stored word is
\* in that band (or the dictionary is empty) the list is empty with count 0.
C6_SuggestionsInBand ==
    (ret.op = "generate_suggestions" /\ ret.word # NullStr) =>
        LET r == ret.val IN
        /\ Len(r.suggestions) = r.count
        /\ \A k \in 1..r.count :
              /\ r.suggestions[k] \in inserted
              /\ BandDistance(ret.word, r.suggestions[k]) \in {1, 2}
        /\ (\A w \in inserted : BandDistance(ret.word, w) \notin {1, 2})
              => (r.count = 0 /\ r.suggestions = <<>>)

\* C6 witness: the dictionary holds the rejected word itself, a word three
\* or more edits away and words in the band, and suggestions were returned.
C6_Witness ==
    /\ SuggestionsFor(Hello) /\ ret.val.count > 0
    /\ Hello \in inserted /\ World \in inserted

\* C7: the list generate_suggestions returns has at most 5 entries and is
\* ordered by non-decreasing edit distance to the rejected word.
C7_CappedAndSorted ==
    (ret.op = "generate_suggestions" /\ ret.word # NullStr) =>
        LET r == ret.val IN
        /\ r.count <= 5
        /\ Len(r.suggestions) <= 5
        /\ \A k \in 1..(Len(r.suggestions) - 1) :
              BandDistance(ret.word, r.suggestions[k])
                  <= BandDistance(ret.word, r.suggestions[k + 1])

\* C7 witness: six words of the dictionary are in the band, one at distance
\* 2 is listed before one at distance 1 by the enumeration, and five
\* suggestions were returned.
C7_Witness ==
    /\ SuggestionsFor(Helo) /\ ret.val.count = 5
    /\ Cardinality({w \in inserted : BandDistance(Helo, w) \in {1, 2}}) >= 6
    /\ He \in inserted /\ Help \in inserted

\* the stored words in the band of word
BandWords(word) == {w \in inserted : BandDistance(word, w) \in {1, 2}}

\* the place of the stored word w in the list trie_get_all_words gives
EnumerationIndex(w) ==
    LET all == trie_get_all_words(trie).words IN
    CHOOSE k \in 1..Len(all) : all[k] = w

\* v comes before w in the order (edit distance, enumeration order)
RankedBefore(word, v, w) ==
    \/ BandDistance(word, v) < BandDistance(word, w)
    \/ /\ BandDistance(word, v) = BandDistance(word, w)
       /\ EnumerationIndex(v) < EnumerationIndex(w)

\* C26: the list generate_suggestions returns is the first min(5, n) of the
\* n in-band candidates ordered by (edit distance, enumeration order):
\* candidates of equal distance keep the order of trie_get_all_words, and
\* none is returned while one of strictly smaller distance is left out.
C26_FirstFiveByDistanceThenEnumeration ==
    (ret.op = "generate_suggestions" /\ ret.word # NullStr) =>
        LET r == ret.val
            band == BandWords(ret.word)
            n == Cardinality(band)
        IN /\ r.count = (IF n < 5 THEN n ELSE 5)
           /\ Len(r.suggestions) = r.count
           /\ \A k \in 1..r.count :
                 /\ r.suggestions[k] \in band
                 /\ Cardinality({v \in band : RankedBefore(ret.word, v, r.suggestions[k])})
                       = k - 1
           /\ \A v \in band :
                 (\A k \in 1..r.count : r.suggestions[k] # v) =>
                    \A k \in 1..r.count :
                        BandDistance(ret.word, v) >= BandDistance(ret.word, r.suggestions[k])

\* C26 witness: of six in-band words five were returned, the distance-1
\* words halo, hell, hello, help in enumeration order before a word at
\* distance 2, and a word at distance 2 was left out.
C26_Witness ==
    /\ SuggestionsFor(Helo) /\ ret.val.count = 5
    /\ Cardinality(BandWords(Helo)) = 6
    /\ SubSeq(ret.val.suggestions, 1, 4) = <<Halo, Hell, Hello, Help>>
    /\ BandDistance(Helo, ret.val.suggestions[5]) = 2

-----------------------------------------------------------------------------
(* Helpers of the document claims *)

\* the call returned after the loop ran over every token
ScanComplete == pc = "done" /\ ~doc.isNull /\ idx = Len(doc.tokens)

\* the token's normalized word is not a word of the dictionary
AbsentLocally(token) == token.word \notin inserted

\* excluded as a proper noun: capitalised and not at column 0
Excluded(token) ==
    /\ Len(token.original_word) > 0
    /\ token.original_word[1] \in 65..90
    /\ token.position # 0

Rejected(token) == AbsentLocally(token) /\ ~Excluded(token)

\* C8: with no oracle configured, a complete scan reports exactly one
\* SpellError per token that is absent from the dictionary and not excluded
\* as a proper noun, in document order, and none for any other token, so
\* error_count is the number of rejected tokens; the dictionary {hello,
\* help, world} and the single token helo at line 1, column 0 give one
\* error for helo whose suggestions include hello and help and not world.
C8_OneErrorPerRejectedToken ==
    (ScanComplete /\ ~g_initialized) =>
        LET rejected == SelectSeq(doc.tokens, Rejected) IN
        /\ result.error_count = Len(rejected)
        /\ Len(result.errors) = Len(rejected)
        /\ \A j \in 1..Len(rejected) :
              /\ result.errors[j].misspelled_word = rejected[j].word
              /\ result.errors[j].original_word = rejected[j].original_word
              /\ result.errors[j].line_number = rejected[j].line_number
              /\ result.errors[j].position = rejected[j].position
        /\ (inserted = {Hello, Help, World} /\ doc.tokens = <<MakeToken(Helo, 1, 0)>>) =>
              LET s == result.errors[1].suggestions
                  listed == {s[k] : k \in 1..Len(s)}
              IN /\ result.error_count = 1
                 /\ result.errors[1].misspelled_word = Helo
                 /\ Hello \in listed /\ Help \in listed /\ World \notin listed

\* C8 witness: a complete scan, no oracle, of a document with a rejected
\* token, a token of the dictionary and an excluded capitalised token.
C8_Witness ==
    /\ ScanComplete /\ ~g_initialized
    /\ inserted = {Hello, Help, World}
    /\ doc.tokens = <<MakeToken(Helo, 1, 0), MakeToken(Hello, 1, 5)>>
    /\ result.error_count = 1

Processed == {k \in 1..Len(doc.tokens) : k <= idx}

\* C9 (as claimed): a token found by the trie lookup is valid without any
\* oracle query; with the oracle client initialised every locally absent
\* token is put to the oracle (a request is counted for it) before it can
\* become an error; without it no request is made.
C9_Original ==
    (pc \in {"loop", "done"} /\ ~doc.isNull) =>
        LET absent == {k \in Processed : AbsentLocally(doc.tokens[k])} IN
        IF g_initialized
        THEN g_stats.total_requests >= Cardinality(absent)
        ELSE g_stats.total_requests = 0

\* the scan was left by break while token idx + 1 was being processed
BrokenOff == pc = "done" /\ ~doc.isNull /\ idx < Len(doc.tokens)

\* the report holds one entry per rejected token among the first idx
\* tokens, in document order
PartialReport ==
    LET rejected == SelectSeq(SubSeq(doc.tokens, 1, idx), Rejected) IN
    /\ ~result.isNull
    /\ result.error_count = Len(rejected)
    /\ Len(result.errors) = Len(rejected)
    /\ \A j \in 1..Len(rejected) :
          /\ result.errors[j].misspelled_word = rejected[j].word
          /\ result.errors[j].original_word = rejected[j].original_word
          /\ result.errors[j].line_number = rejected[j].line_number
          /\ result.errors[j].position = rejected[j].position

\* C18: when growing the error list fails at token k, the scan stops and
\* returns a report whose errors are those gathered for the tokens before
\* k, unchanged and in order, with error_count their number: a prefix of
\* the report of a run without the failure.
C18_FailedGrowthKeepsPrefix ==
    [][(pc = "loop" /\ BrokenOff')
          => /\ result'.errors = result.errors
             /\ result'.error_count = result.error_count
             /\ PartialReport'
             /\ Rejected(doc.tokens[idx + 1])]_vars

\* C18 witness: the realloc for the 101st error failed, and the scan
\* returned the 100 errors it had gathered.
C18_Witness ==
    /\ BrokenOff
    /\ idx = InitialMaxErrors
    /\ result.error_count = InitialMaxErrors
    /\ Len(result.errors) = InitialMaxErrors
    /\ result.errors[InitialMaxErrors].line_number = InitialMaxErrors

\* the token at column position of text begins a sentence: nothing but
\* white space comes before it, or the last character before it that is not
\* white space ends a sentence
SentenceInitial(text, position) ==
    LET before == {i \in 1..position : text[i] \notin {32, 9}} IN
    \/ before = {}
    \/ LET last == CHOOSE i \in before : \A m \in before : m <= i IN
       text[last] \in {46, 33, 63}

\* the report holds an error for the token
Reported(token) ==
    \E j \in 1..Len(result.errors) :
        /\ result.errors[j].line_number = token.line_number
        /\ result.errors[j].position = token.position
        /\ result.errors[j].original_word = token.original_word

\* C20 (as claimed): a token absent from the dictionary produces no
\* SpellError exactly when its original text begins with an upper-case
\* letter and the token does not begin a sentence; a token of the
\* dictionary produces none whatever the heuristic says.
C20_Original ==
    ScanComplete =>
        \A text \in SourceTexts :
            doc.tokens = TokenizeLine(text, 1) =>
                \A k \in 1..Len(doc.tokens) :
                    LET token == doc.tokens[k] IN
                    IF AbsentLocally(token)
                    THEN ~Reported(token) <=>
                            /\ token.original_word[1] \in 65..90
                            /\ ~SentenceInitial(text, token.position)
                    ELSE ~Reported(token)

-----------------------------------------------------------------------------
(* Helpers of the loading claims *)

\* the letters of a line, in lower case
Letters(line) ==
    LET kept == SelectSeq(line, LAMBDA c : c \in 65..90 \/ c \in 97..122) IN
    [i \in 1..Len(kept) |-> IF kept[i] \in 65..90 THEN kept[i] + 32 ELSE kept[i]]

HasLongRun(w) == \E i \in 1..(Len(w) - 3) : \A j \in 1..3 : w[i + j] = w[i]

\* a line the claim says is skipped: blank, without a letter, normalized
\* length outside [2,50], or more than 3 identical characters in a row
SkippedAsClaimed(line) ==
    \/ Len(line) = 0
    \/ Len(Letters(line)) = 0
    \/ Len(Letters(line)) < 2 \/ Len(Letters(line)) > 50
    \/ HasLongRun(Letters(line))

\* a line that is set aside before it is normalized: one with a character
\* that is neither printable nor white space, or longer than 100 characters
SetAside(line) ==
    \/ \E i \in 1..Len(line) : line[i] \notin 32..126 /\ line[i] \notin 9..13
    \/ Len(line) > 100

LoadReturned == ret.op = "load_dictionary"

CompleteRead == ret.opened /\ ret.delivered = Len(ret.file)

-----------------------------------------------------------------------------
(* Helpers of the report claims *)

\* the number of tokens the loop has examined: those it went through and,
\* when it broke off, the token it broke off at
Examined == IF BrokenOff THEN idx + 1 ELSE idx

\* a token the loop checks against the dictionary: its word is 2 to 50
\* letters with no letter more than 3 times in a row
Checked(token) ==
    /\ Len(token.word) >= 2 /\ Len(token.word) <= 50
    /\ \A i \in 1..Len(token.word) : token.word[i] \in 97..122 \/ token.word[i] \in 65..90
    /\ ~HasLongRun(token.word)

\* C27: during spell_check_document and in the report it returns,
\* 0 <= error_count <= total_words_checked <= number of tokens examined;
\* the errors are in token order and each carries the word, original text,
\* line number and position of its token; a token excluded as a proper noun
\* is counted in total_words_checked and not in error_count.
C27_ReportCountsAndOrder ==
    (pc \in {"loop", "done"} /\ ~doc.isNull) =>
        LET examined == SubSeq(doc.tokens, 1, Examined)
            excluded == SelectSeq(SelectSeq(examined, AbsentLocally), Excluded)
        IN /\ 0 <= result.error_count
           /\ result.error_count <= result.total_words_checked
           /\ result.total_words_checked <= Examined
           /\ result.total_words_checked = Len(SelectSeq(examined, Checked))
           /\ PartialReport
           /\ result.total_words_checked - result.error_count >= Len(excluded)

\* C27 witness: a complete scan of a rejected token and a token excluded as
\* a proper noun: two words checked, one error.
C27_Witness ==
    /\ ScanComplete
    /\ doc.tokens = <<MakeToken(Helo, 1, 0), MakeToken(CapHelo, 2, 6)>>
    /\ inserted = {Cat}
    /\ result.total_words_checked = 2
    /\ result.error_count = 1
    /\ result.errors[1].original_word = Helo

-----------------------------------------------------------------------------
(* Helpers of the threads claim *)

RECURSIVE CallsMade(_)
CallsMade(t) == IF t = 0 THEN 0 ELSE threads[t].calls + CallsMade(t - 1)

AllReturned == \A t \in Threads : threads[t].pc = "idle"

\* C19 (as claimed): fetch_from_api is thread-safe: with every call
\* returned, total_requests is the number of calls made with a non-empty
\* word, and successful_requests + failed_requests is total_requests.
C19_Original ==
    (threads # <<>> /\ AllReturned) =>
        /\ g_stats.total_requests = CallsMade(NumThreads)
        /\ g_stats.successful_requests + g_stats.failed_requests = g_stats.total_requests

\* one thread alone: the split steps give what the call gives as a whole
SoloCallsKeepCount ==
    (threads # <<>> /\ AllReturned /\ \A t \in Threads : t > 1 => threads[t].calls = 0) =>
        /\ g_stats.total_requests = CallsMade(NumThreads)
        /\ g_stats.successful_requests + g_stats.failed_requests = g_stats.total_requests

-----------------------------------------------------------------------------
(* Helpers of the oracle claims *)

\* the body's first item is an entry whose headword (meta.id up to a colon,
\* in lower case) is not the word searched
DescribesOtherWord(body, word) ==
    /\ body.kind = "array" /\ Len(body.items) > 0
    /\ body.items[1].type = "object"
    /\ body.items[1].id # NullStr
    /\ toLowerCase(SplitColon(body.items[1].id, 1)) # toLowerCase(word)

Answered(x) == x.curlInit /\ x.transferOk /\ x.http = 200

\* C10 (as claimed): an answer whose entry describes a different base word
\* than the word searched is treated as not found: fetch_from_api does not
\* return 1 and does not count the word as found, and the front end shows
\* the word as incorrect with suggestions.
C10_Original ==
    /\ (/\ ret.op = "fetch_from_api" /\ g_initialized
        /\ ret.word # NullStr /\ Len(ret.word) > 0
        /\ Answered(ret.exchange)
        /\ DescribesOtherWord(ret.exchange.body, ret.word))
          => ret.val # 1
    /\ (/\ ret.op = "checkSpelling" /\ ret.val.queried
        /\ Answered(ret.exchange)
        /\ DescribesOtherWord(ret.exchange.body, ret.word))
          => (ret.val.status = "incorrect" /\ ret.val.suggestions \in {"api", "local"})

\* the exchange ended in a network or timeout error, an HTTP error or a
\* body that does not parse
FailedExchange(x) ==
    ~x.curlInit \/ ~x.transferOk \/ x.http # 200 \/ x.body.kind = "invalid"

C21_ReturnsOneOfThree ==
    ret.op = "fetch_from_api" =>
        /\ ret.val \in {-1, 0, 1}
        /\ (ret.word = NullStr \/ ret.word = <<>> \/ ~g_initialized) => ret.val = -1
        /\ ret.val \in {0, 1} => (g_initialized /\ Answered(ret.exchange))
        /\ (/\ g_initialized /\ ret.word # NullStr /\ ret.word # <<>>
            /\ Answered(ret.exchange)) => ret.val \in {0, 1}

\* C21 witness: a call made before api_client_init, with an exchange that
\* would have answered "found", returned -1.
C21_Witness ==
    /\ ret.op = "fetch_from_api" /\ ~g_initialized
    /\ ret.word = Absolute
    /\ Answered(ret.exchange)
    /\ ret.exchange.body = JsonArray(<<JsonEntry(Absolute)>>)
    /\ ret.val = -1

FetchCall(op) == op \in {"fetch_from_api", "fetch_word_details"}

AllCountersZero(stats) ==
    /\ stats.total_requests = 0 /\ stats.successful_requests = 0
    /\ stats.failed_requests = 0 /\ stats.words_found = 0
    /\ stats.words_not_found = 0 /\ stats.total_response_time = 0
    /\ stats.avg_response_time.num = 0

\* what one call does to the statistics
StatsStep ==
    /\ (FetchCall(ret'.op) /\ ret'.word \in {NullStr, <<>>}) => g_stats' = g_stats
    /\ (FetchCall(ret'.op) /\ ret'.word \notin {NullStr, <<>>} /\ ~g_initialized)
          => g_stats' = [g_stats EXCEPT !.total_requests = @ + 1,
                                        !.failed_requests = @ + 1]
    /\ ret'.op = "reset_api_stats" => AllCountersZero(g_stats')
    /\ (ret'.op = "api_client_init" /\ ret'.val) => AllCountersZero(g_stats')
    /\ (ret'.op = "api_client_init" /\ ~ret'.val) => g_stats' = g_stats
    /\ ret'.op = "api_client_cleanup" => g_stats' = g_stats

\* C28: after any single-threaded sequence of api_client_init,
\* fetch_from_api, fetch_word_details, reset_api_stats and
\* api_client_cleanup calls, total_requests = successful_requests +
\* failed_requests and successful_requests = words_found +
\* words_not_found; a call rejected for a NULL or empty word changes no
\* counter, a call made while uninitialised counts as one failed request,
\* and reset_api_stats and a successful api_client_init zero every counter.
C28_StatisticsBalance ==
    /\ [](/\ g_stats.total_requests
                = g_stats.successful_requests + g_stats.failed_requests
          /\ g_stats.successful_requests
                = g_stats.words_found + g_stats.words_not_found)
    /\ [][StatsStep]_vars

\* C28 witness: after a successful and a failed request, fetch_word_details
\* was called on a client no longer initialised and counted as failed.
C28_Witness ==
    /\ ret.op = "fetch_word_details" /\ ret.word = Absolute /\ ~g_initialized
    /\ ret.val.isNull
    /\ g_stats.successful_requests = 1 /\ g_stats.words_found = 1
    /\ g_stats.failed_requests = 2 /\ g_stats.total_requests = 3

\* C11, the scan: whatever the state of the oracle client, the document
\* check runs to its end.
C11_ScanCompletes == <>(pc = "done")

=============================================================================
